---- MODULE Spec2Model ----
(***************************************************************************)
(* Recurring work-generation schedulers of the CMMS backend:               *)
(*   - PMScheduler (services/pm_scheduler.py): evaluates preventive        *)
(*     maintenance definitions and generates work orders;                  *)
(*   - CycleCountScheduler (services/cycle_count_scheduler.py): generates  *)
(*     cycle-count sessions from recurring count plans.                    *)
(* Dates are day ordinals counted from 2024-01-01 (ordinal 0, a Monday).   *)
(* Optional integer columns hold None (-1) when NULL.                      *)
(***************************************************************************)
EXTENDS Integers, Sequences, FiniteSets, TLC

None == 0 - 1

\* Python truthiness of an Optional[int] / Optional[float] column.
Truthy(x) == x # None /\ x # 0

Min(a, b) == IF a <= b THEN a ELSE b

-----------------------------------------------------------------------------
(* Calendar (datetime.date, calendar.monthrange)                           *)

\* Ordinal 0 is 2024-01-01; EpochShift places it on the proleptic
\* Gregorian day count that starts on 0000-03-01.
EpochShift == 739191

IsLeap(y) == (y % 4 = 0) /\ ((y % 100 # 0) \/ (y % 400 = 0))

\* calendar.monthrange(year, month)[1]
MonthRange(y, m) ==
    IF m = 2 THEN (IF IsLeap(y) THEN 29 ELSE 28)
    ELSE IF m \in {4, 6, 9, 11} THEN 30 ELSE 31

\* date.fromordinal: the civil date [y, m, d] of a day ordinal.
DateOf(n) ==
    LET z   == n + EpochShift
        era == z \div 146097
        doe == z - era * 146097
        yoe == (doe - (doe \div 1460) + (doe \div 36524) - (doe \div 146096)) \div 365
        doy == doe - (365 * yoe + (yoe \div 4) - (yoe \div 100))
        mp  == (5 * doy + 2) \div 153
        d   == doy - ((153 * mp + 2) \div 5) + 1
        m   == IF mp < 10 THEN mp + 3 ELSE mp - 9
        y   == yoe + era * 400 + (IF m <= 2 THEN 1 ELSE 0)
    IN  [y |-> y, m |-> m, d |-> d]

\* date(y, m, d) is accepted by the constructor.
ValidDate(y, m, d) ==
    /\ y >= 1 /\ y <= 9999
    /\ m >= 1 /\ m <= 12
    /\ d >= 1 /\ d <= MonthRange(y, m)

\* date(y, m, d) as a day ordinal.
OrdOf(y, m, d) ==
    LET yy  == IF m <= 2 THEN y - 1 ELSE y
        era == yy \div 400
        yoe == yy - era * 400
        mp  == IF m > 2 THEN m - 3 ELSE m + 9
        doy == ((153 * mp + 2) \div 5) + d - 1
        doe == yoe * 365 + (yoe \div 4) - (yoe \div 100) + doy
    IN  era * 146097 + doe - EpochShift

\* date.weekday() + 1: 1 = Monday .. 7 = Sunday.
IsoWeekday(n) == (n % 7) + 1

\* date.isoformat(): the zero-padded "YYYY-MM-DD" text, kept as its three
\* fields.
IsoFormat(n) == <<DateOf(n).y, DateOf(n).m, DateOf(n).d>>

\* base + timedelta(days = k)
AddDays(base, k) == base + k

\* base + timedelta(weeks = k)
AddWeeks(base, k) == base + 7 * k

\* The MONTHS branch shared by both schedulers.
AddMonths(base, k) ==
    LET b     == DateOf(base)
        month == b.m + k
        year  == b.y + ((month - 1) \div 12)
        mon   == ((month - 1) % 12) + 1
        day   == Min(b.d, MonthRange(year, mon))
    IN  OrdOf(year, mon, day)

\* The YEARS branch of PMScheduler._calculate_next_due_date: Feb 29 falls
\* back to Feb 28 when the target year has no such day.
AddYears(base, k) ==
    LET b == DateOf(base)
    IN  IF ValidDate(b.y + k, b.m, b.d)
        THEN OrdOf(b.y + k, b.m, b.d)
        ELSE OrdOf(b.y + k, b.m, 28)

\* date.max as a day ordinal (datetime.MAXYEAR = 9999).
MaxOrd == OrdOf(9999, 12, 31)

-----------------------------------------------------------------------------
(* Trigger evaluation and next-due computation of PMScheduler.  A pm is a   *)
(* PreventiveMaintenance row; meters maps a meter id to its Meter row.      *)

TriggerTypes == {"TIME", "METER", "CONDITION", "TIME_OR_METER", "TIME_AND_METER"}
ScheduleTypes == {"FIXED", "FLOATING"}
FrequencyUnits == {"DAYS", "WEEKS", "MONTHS", "YEARS"}

\* PMScheduler._check_meter_trigger
CheckMeterTrigger(pm, meters) ==
    IF ~Truthy(pm.meter_id) \/ ~Truthy(pm.meter_interval) THEN FALSE
    ELSE LET meter == meters[pm.meter_id]
         IN  IF ~meter.exists \/ meter.last_reading = None THEN FALSE
             ELSE IF pm.next_meter_reading # None
                  THEN meter.last_reading >= pm.next_meter_reading
                  ELSE FALSE

\* PMScheduler._check_condition_trigger: a placeholder that never fires.
CheckConditionTrigger(pm, meters) == FALSE

\* A seasonal gate that compares every window as start <= month <= end.
SeasonalReject_NoWrap(pm, today) ==
    /\ Truthy(pm.seasonal_start_month) /\ Truthy(pm.seasonal_end_month)
    /\ ~(pm.seasonal_start_month <= DateOf(today).m
         /\ DateOf(today).m <= pm.seasonal_end_month)

\* The seasonal gate of _should_generate_wo: TRUE when today is rejected.
SeasonalReject(pm, today) ==
    /\ Truthy(pm.seasonal_start_month) /\ Truthy(pm.seasonal_end_month)
    /\ LET current_month == DateOf(today).m
       IN  IF pm.seasonal_start_month <= pm.seasonal_end_month
           THEN ~(pm.seasonal_start_month <= current_month
                  /\ current_month <= pm.seasonal_end_month)
           ELSE ~(current_month >= pm.seasonal_start_month
                  \/ current_month <= pm.seasonal_end_month)

\* The excluded-day gate of _should_generate_wo: TRUE when today is rejected.
ExcludedReject(pm, today) ==
    /\ pm.excluded_days.present
    /\ \/ IsoWeekday(today) \in pm.excluded_days.weekdays
       \/ IsoFormat(today) \in pm.excluded_days.dates

\* Variant of ShouldGenerateWO whose lead window opens one day late.
ShouldGenerateWO_LateLead(pm, today, meters) ==
    IF pm.next_due_date = None THEN FALSE
    ELSE IF today <= pm.next_due_date - pm.lead_time_days THEN FALSE
    ELSE IF SeasonalReject(pm, today) THEN FALSE
    ELSE IF ExcludedReject(pm, today) THEN FALSE
    ELSE IF pm.trigger_type = "TIME" THEN TRUE
    ELSE IF pm.trigger_type = "METER" THEN CheckMeterTrigger(pm, meters)
    ELSE IF pm.trigger_type = "TIME_OR_METER"
         THEN (IF today >= pm.next_due_date THEN TRUE
               ELSE CheckMeterTrigger(pm, meters))
    ELSE IF pm.trigger_type = "TIME_AND_METER"
         THEN (IF today < pm.next_due_date THEN FALSE
               ELSE CheckMeterTrigger(pm, meters))
    ELSE IF pm.trigger_type = "CONDITION" THEN CheckConditionTrigger(pm, meters)
    ELSE FALSE

\* PMScheduler._should_generate_wo
ShouldGenerateWO(pm, today, meters) ==
    IF pm.next_due_date = None THEN FALSE
    ELSE IF today < pm.next_due_date - pm.lead_time_days THEN FALSE
    ELSE IF SeasonalReject(pm, today) THEN FALSE
    ELSE IF ExcludedReject(pm, today) THEN FALSE
    ELSE IF pm.trigger_type = "TIME" THEN TRUE
    ELSE IF pm.trigger_type = "METER" THEN CheckMeterTrigger(pm, meters)
    ELSE IF pm.trigger_type = "TIME_OR_METER"
         THEN (IF today >= pm.next_due_date THEN TRUE
               ELSE CheckMeterTrigger(pm, meters))
    ELSE IF pm.trigger_type = "TIME_AND_METER"
         THEN (IF today < pm.next_due_date THEN FALSE
               ELSE CheckMeterTrigger(pm, meters))
    ELSE IF pm.trigger_type = "CONDITION" THEN CheckConditionTrigger(pm, meters)
    ELSE FALSE

\* Variant of NextDueBase that chains every schedule off the generation day.
NextDueBase_AlwaysToday(pm, now) == now

\* The base date of _calculate_next_due_date; now is date.today().
NextDueBase(pm, now) ==
    IF pm.schedule_type = "FIXED"
    THEN (IF pm.next_due_date # None THEN pm.next_due_date ELSE now)
    ELSE now

\* PMScheduler._calculate_next_due_date raises (OverflowError / ValueError)
\* when the computed date lies outside date.min .. date.max.
CalcNextDueRaises(pm, now) ==
    /\ pm.frequency # None /\ pm.frequency_unit # "NONE"
    /\ LET base == NextDueBase(pm, now)
           b == DateOf(base)
       IN  \/ pm.frequency_unit = "DAYS" /\ AddDays(base, pm.frequency) > MaxOrd
           \/ pm.frequency_unit = "WEEKS" /\ AddWeeks(base, pm.frequency) > MaxOrd
           \/ pm.frequency_unit = "MONTHS"
              /\ b.y + ((b.m + pm.frequency - 1) \div 12) > 9999
           \/ pm.frequency_unit = "YEARS" /\ b.y + pm.frequency > 9999

\* PMScheduler._calculate_next_due_date (value when it does not raise)
CalculateNextDueDate(pm, now) ==
    IF pm.frequency = None \/ pm.frequency_unit = "NONE" THEN None
    ELSE LET base == NextDueBase(pm, now)
         IN  IF pm.frequency_unit = "DAYS" THEN AddDays(base, pm.frequency)
             ELSE IF pm.frequency_unit = "WEEKS" THEN AddWeeks(base, pm.frequency)
             ELSE IF pm.frequency_unit = "MONTHS" THEN AddMonths(base, pm.frequency)
             ELSE IF pm.frequency_unit = "YEARS" THEN AddYears(base, pm.frequency)
             ELSE None

-----------------------------------------------------------------------------
(* Bounds of the model                                                      *)

MaxDay == 3
MaxReading == 2
MaxWoSeq == 3

PMIds == {1, 2}
Orgs == {1, 2}
MeterIds == {1}
JobPlanIds == {1}

-----------------------------------------------------------------------------
(* Rows                                                                     *)

NoExcluded == [present |-> FALSE, weekdays |-> {}, dates |-> {}]

\* A PreventiveMaintenance row with the scheduling columns given and the
\* tracking columns NULL.
MkPM(org, trig, sched, f, u, lead, due, mid, mint, target, active) ==
    [organization_id |-> org, trigger_type |-> trig, schedule_type |-> sched,
     frequency |-> f, frequency_unit |-> u,
     meter_id |-> mid, meter_interval |-> mint,
     last_wo_date |-> None, last_wo_id |-> None, next_due_date |-> due,
     last_meter_reading |-> None, next_meter_reading |-> target,
     lead_time_days |-> lead,
     seasonal_start_month |-> None, seasonal_end_month |-> None,
     excluded_days |-> NoExcluded,
     is_active |-> active, job_plan_id |-> None]

\* The columns of a definition that the generator writes.
TrackingOf(pm) ==
    <<pm.last_wo_date, pm.last_wo_id, pm.next_due_date,
      pm.last_meter_reading, pm.next_meter_reading>>

\* SchedulerControl rows: exists = FALSE stands for "no row for this tenant".
ControlRows ==
    {[exists |-> FALSE, pause_pm |-> FALSE, pause_cycle_counts |-> FALSE],
     [exists |-> TRUE, pause_pm |-> FALSE, pause_cycle_counts |-> FALSE],
     [exists |-> TRUE, pause_pm |-> TRUE, pause_cycle_counts |-> FALSE]}

VARIABLES
    jobPlanTable,     \* job_plan_tasks rows of each job plan (committed)
    sessJobPlan,      \* JobPlan.tasks as the cycle's SELECT loaded them
    partTable         \* parts rows (committed), by id

\* The job_plan_tasks rows the store starts with.
InitialJobPlans == [jp \in JobPlanIds |-> <<"inspect", "lubricate">>]

\* The parts rows the store starts with, by id.
PartRows ==
    <<[organization_id |-> 1, part_number |-> "P-1", name |-> "Bearing",
       category_id |-> 1, part_type |-> "STOCK"],
      [organization_id |-> 1, part_number |-> "P-2", name |-> "Grease",
       category_id |-> 2, part_type |-> "NON_STOCK"],
      [organization_id |-> 2, part_number |-> "P-1", name |-> "Filter",
       category_id |-> None, part_type |-> "STOCK"]>>

\* pm.job_plan.tasks, loaded with the definitions (selectinload).
JobPlanTasks(jp) == IF jp \in DOMAIN sessJobPlan THEN sessJobPlan[jp] ELSE <<>>

-----------------------------------------------------------------------------
(* Generator helpers of PMScheduler._generate_work_order                    *)

\* The WorkOrder row built by _generate_work_order, with the WorkOrderTask
\* rows copied from the job plan.
NewWorkOrder(pm, pmId, woId, woNumber) ==
    [id |-> woId, organization_id |-> pm.organization_id,
     wo_number |-> woNumber, pm_id |-> pmId, due_date |-> pm.next_due_date,
     status |-> "APPROVED", work_type |-> "PREVENTIVE",
     actual_start |-> None, actual_end |-> None,
     tasks |-> IF pm.job_plan_id # None THEN JobPlanTasks(pm.job_plan_id) ELSE <<>>]

\* Variant of TrackedPM that records the date but not the work order.
TrackedPM_DateOnly(pm, now, woId) == [pm EXCEPT !.last_wo_date = now]

\* Variant of TrackedPM that also deactivates the definition it generated for.
TrackedPM_Deactivating(pm, now, woId) ==
    [pm EXCEPT !.last_wo_date = now, !.last_wo_id = woId, !.is_active = FALSE]

\* "Update PM tracking": last_wo_date and last_wo_id.
TrackedPM(pm, now, woId) ==
    [pm EXCEPT !.last_wo_date = now, !.last_wo_id = woId]

\* Variant of RearmedPM that re-arms the target at the reading itself.
RearmedPM_NoInterval(pm, meters) ==
    IF Truthy(pm.meter_id) /\ Truthy(pm.meter_interval)
    THEN LET meter == meters[pm.meter_id]
         IN  IF meter.exists /\ meter.last_reading # None
             THEN [pm EXCEPT !.last_meter_reading = meter.last_reading,
                             !.next_meter_reading = meter.last_reading]
             ELSE pm
    ELSE pm

\* Variant of RearmedPM that moves the target but keeps the old baseline.
RearmedPM_OldBaseline(pm, meters) ==
    IF Truthy(pm.meter_id) /\ Truthy(pm.meter_interval)
    THEN LET meter == meters[pm.meter_id]
         IN  IF meter.exists /\ meter.last_reading # None
             THEN [pm EXCEPT !.next_meter_reading = meter.last_reading + pm.meter_interval]
             ELSE pm
    ELSE pm

\* "Update meter tracking if applicable".
RearmedPM(pm, meters) ==
    IF Truthy(pm.meter_id) /\ Truthy(pm.meter_interval)
    THEN LET meter == meters[pm.meter_id]
         IN  IF meter.exists /\ meter.last_reading # None
             THEN [pm EXCEPT !.last_meter_reading = meter.last_reading,
                             !.next_meter_reading = meter.last_reading + pm.meter_interval]
             ELSE pm
    ELSE pm

\* The definition after a generation that ran to its return statement.
GeneratedPM(pm, now, woId, meters) ==
    LET tracked == TrackedPM(pm, now, woId)
        advanced == [tracked EXCEPT !.next_due_date = CalculateNextDueDate(tracked, now)]
    IN  RearmedPM(advanced, meters)

\* Variant of Paused that skips every tenant that has a control row.
Paused_AnyRow(cache, org) == cache[org].exists

\* "control and control.pause_pm" in process_due_pms.
Paused(cache, org) == cache[org].exists /\ cache[org].pause_pm

\* The SELECT of process_due_pms: active definitions with a next due date,
\* in primary-key order.
LoadPMs(table) ==
    SelectSeq(<<1, 2>>,
              LAMBDA q : table[q].is_active /\ table[q].next_due_date # None)

\* _should_generate_wo reaches the SELECT of _check_meter_trigger.
EvalReadsMeter(pm, today) ==
    /\ pm.next_due_date # None
    /\ today >= pm.next_due_date - pm.lead_time_days
    /\ ~SeasonalReject(pm, today)
    /\ ~ExcludedReject(pm, today)
    /\ \/ pm.trigger_type = "METER"
       \/ pm.trigger_type = "TIME_OR_METER" /\ today < pm.next_due_date
       \/ pm.trigger_type = "TIME_AND_METER" /\ today >= pm.next_due_date
    /\ Truthy(pm.meter_id) /\ Truthy(pm.meter_interval)

-----------------------------------------------------------------------------
VARIABLES
    clock,            \* date.today()
    pmTable,          \* preventive_maintenance rows (committed)
    meterTable,       \* meters rows (committed)
    controlTable,     \* scheduler_controls rows (committed)
    woTable,          \* work_orders rows with their tasks (committed)
    woSeq,            \* next value of the work_orders id sequence
    pc,               \* run_pm_scheduler: "sleeping", "evaluating", "stopped"
    today,            \* process_due_pms: today
    controls_cache,   \* PMScheduler._controls_cache
    pms,              \* process_due_pms: pms
    idx,              \* position of the for loop in pms
    generated_wos,    \* process_due_pms: generated_wos
    sessPM,           \* the session's PreventiveMaintenance objects
    sessWO,           \* work orders flushed in the open transaction
    sessMeter,        \* the session's identity map of Meter objects
    sessBroken,       \* the transaction was rolled back by a failed flush
    hist,             \* history of the cycles, for the properties only
    probe             \* one definition under evaluation / generation by itself

dbVars == <<pmTable, meterTable, controlTable, woTable, woSeq, jobPlanTable, partTable>>
cycleVars == <<today, controls_cache, pms, idx, generated_wos>>
sessVars == <<sessPM, sessWO, sessMeter, sessBroken, sessJobPlan>>
pmVars == <<clock, dbVars, pc, cycleVars, sessVars, hist>>
VARIABLES
    ccHalf,           \* half of the day that datetime.utcnow() falls in (0, 1)
    ccPlanTable,      \* cycle_count_plans rows (committed), by id
    ccCountTable,     \* cycle_counts rows with their lines (committed)
    ccStockTable,     \* stock_levels rows (committed), by id
    ccTxnTable,       \* material_transactions rows (committed)
    ccSeq,            \* next value of the cycle_counts id sequence
    ccPc,             \* process_due_plans: "idle", "looping"
    ccCycle,          \* process_due_plans: today, controls, plans, position, generated
    ccSess,           \* the session's plan objects and pending count rows
    ccLast            \* the outcome of the last plan handled, for the properties only

ccVars == <<ccHalf, ccPlanTable, ccCountTable, ccStockTable, ccTxnTable, ccSeq,
            ccPc, ccCycle, ccSess, ccLast>>
VARIABLES
    cal,              \* one next-due computation: its inputs and the results so far
    woHistTable,      \* work_order_status_history rows (committed), in insert order
    woDeleted,        \* <<tenant, wo_number>> of the work orders deleted, for the properties only
    api,              \* the last request served, for the properties only
    req               \* the request that creates a work order, while in flight

apiVars == <<cal, woHistTable, woDeleted, api, req>>

\* state outside the maintenance scheduler
catalogVars == <<jobPlanTable, partTable>>
others == <<probe, ccVars, catalogVars, sessJobPlan, apiVars>>
vars == <<pmVars, others>>

NoMeterCache == [m \in MeterIds |-> [loaded |-> FALSE, row |-> [exists |-> FALSE, last_reading |-> None]]]

\* Meter rows as the session sees them: a Meter object already in the
\* identity map keeps the attributes it was first loaded with.
ViewMeters ==
    [m \in MeterIds |-> IF sessMeter[m].loaded THEN sessMeter[m].row ELSE meterTable[m]]

Touch(sm, m) == [sm EXCEPT ![m] = [loaded |-> TRUE, row |-> ViewMeters[m]]]

\* The count scheduler at rest on a store without plans, stock or counts.
NoLast == [plan |-> 0, outcome |-> "none", before |-> None, after |-> None,
           counts |-> 0, raised |-> FALSE]

\* No cycle is running: no locals of process_due_plans, no open session.
NoCycle == [today |-> 0, controls |-> <<>>, plans |-> <<>>, idx |-> 1, generated |-> <<>>]
NoSession == [plans |-> <<>>, dirty |-> {}, counts |-> {}]

CCIdle ==
    /\ ccHalf = 0
    /\ ccPlanTable = <<>>
    /\ ccCountTable = {}
    /\ ccStockTable = <<>>
    /\ ccTxnTable = {}
    /\ ccSeq = 1
    /\ ccPc = "idle"
    /\ ccCycle = NoCycle
    /\ ccSess = NoSession
    /\ ccLast = NoLast

-----------------------------------------------------------------------------
(* Initial data store                                                       *)

WithGates(pm, s, e, ex, jp) ==
    [pm EXCEPT !.seasonal_start_month = s, !.seasonal_end_month = e,
               !.excluded_days = ex, !.job_plan_id = jp]

\* Definitions of tenant 1 the store may hold as definition 1.
Profiles1 ==
    {MkPM(1, "TIME", "FIXED", 1, "DAYS", 0, 0, None, None, None, TRUE),
     MkPM(1, "TIME", "FLOATING", 2, "DAYS", 2, 2, None, None, None, TRUE),
     MkPM(1, "TIME", "FLOATING", 2, "DAYS", 1, 1, None, None, None, TRUE),
     MkPM(1, "METER", "FIXED", 1, "DAYS", 0, 0, 1, 2, 2, TRUE),
     MkPM(1, "TIME_OR_METER", "FLOATING", 1, "MONTHS", 1, 3, 1, 2, 2, TRUE),
     MkPM(1, "TIME_AND_METER", "FIXED", 1, "DAYS", 0, 1, 1, 2, 2, TRUE),
     MkPM(1, "CONDITION", "FIXED", 1, "DAYS", 0, 0, None, None, None, TRUE),
     MkPM(1, "TIME", "FIXED", None, "NONE", 0, 0, None, None, None, TRUE),
     MkPM(1, "TIME", "FIXED", 9000, "YEARS", 0, 0, None, None, None, TRUE),
     MkPM(1, "TIME", "FIXED", 1, "DAYS", 0, 0, None, None, None, FALSE),
     MkPM(1, "TIME", "FIXED", 1, "DAYS", 0, None, None, None, None, TRUE),
     MkPM(1, "METER", "FIXED", 1, "DAYS", 0, None, 1, 2, 2, TRUE),
     WithGates(MkPM(1, "TIME", "FIXED", 1, "DAYS", 0, 0, None, None, None, TRUE),
               4, 10, NoExcluded, None),
     WithGates(MkPM(1, "TIME", "FIXED", 1, "DAYS", 0, 0, None, None, None, TRUE),
               11, 3, [present |-> TRUE, weekdays |-> {2}, dates |-> {<<2024, 1, 3>>}], 1)}

\* Definitions the store may hold as definition 2 (and later ones).
Profiles2 ==
    {MkPM(2, "TIME", "FIXED", 1, "DAYS", 0, 0, None, None, None, TRUE),
     WithGates(MkPM(1, "TIME", "FIXED", 2, "DAYS", 1, 1, None, None, None, TRUE),
               None, None, NoExcluded, 1),
     MkPM(1, "METER", "FLOATING", 1, "DAYS", 0, 0, 1, 1, 1, TRUE),
     MkPM(2, "TIME_OR_METER", "FIXED", 1, "WEEKS", 0, 2, 1, 2, 1, TRUE)}

\* The probe while the schedulers run on the data store.
NoProbe ==
    [pm |-> MkPM(1, "TIME", "FIXED", 1, "DAYS", 0, 0, None, None, None, TRUE),
     today |-> 0, reading |-> None, phase |-> "off", due |-> FALSE,
     after |-> MkPM(1, "TIME", "FIXED", 1, "DAYS", 0, 0, None, None, None, TRUE)]

InitHist(table) ==
    [cur |-> {}, curGen |-> {}, prev |-> {}, dirty |-> FALSE, failed |-> {},
     pre |-> table, seq0 |-> 1, end |-> "none", out |-> "none", outPM |-> 0,
     okIds |-> {}]

\* No date computation under test.
NoResult == [done |-> FALSE, raised |-> FALSE, value |-> None]
NoCalc == [pm |-> NoProbe.pm, today |-> 0, phase |-> "off",
           scheduler |-> NoResult, endpoint |-> NoResult, plan |-> NoResult]

\* No request served yet, none in flight.
NoCall == [n |-> 0, op |-> "none", wo |-> 0, org |-> 0, from |-> "", to |-> "",
           accepted |-> FALSE, number |-> 0]
NoRequest == [phase |-> "none", op |-> "none", org |-> 0, pm_id |-> 0,
              number |-> 0, pm |-> NoProbe.pm, tasks |-> <<>>]

\* The endpoints at rest: no status history, no work order deleted.
ApiIdle ==
    /\ cal = NoCalc
    /\ woHistTable = <<>>
    /\ woDeleted = {}
    /\ api = NoCall
    /\ req = NoRequest

Init ==
    /\ clock = 0
    /\ pmTable \in {t \in [PMIds -> Profiles1 \cup Profiles2] :
                       /\ t[1] \in Profiles1
                       /\ \A q \in PMIds \ {1} : t[q] \in Profiles2}
    /\ meterTable = [m \in MeterIds |-> [exists |-> TRUE, last_reading |-> None]]
    /\ controlTable \in {c \in [Orgs -> ControlRows] : c[2].exists => c[2].pause_pm}
    /\ woTable = {}
    /\ woSeq = 1
    /\ pc = "sleeping"
    /\ today = 0
    /\ controls_cache = [o \in Orgs |-> [exists |-> FALSE, pause_pm |-> FALSE, pause_cycle_counts |-> FALSE]]
    /\ pms = <<>>
    /\ idx = 1
    /\ generated_wos = <<>>
    /\ sessPM = pmTable
    /\ sessWO = {}
    /\ sessMeter = NoMeterCache
    /\ sessBroken = FALSE
    /\ jobPlanTable = InitialJobPlans
    /\ sessJobPlan = InitialJobPlans
    /\ partTable = PartRows
    /\ hist = InitHist(pmTable)
    /\ probe = NoProbe
    /\ CCIdle
    /\ ApiIdle

-----------------------------------------------------------------------------
(* run_pm_scheduler / PMScheduler.process_due_pms                           *)

\* LOADING: open the session, _load_controls, today, the SELECT of the
\* definitions.  The initial state of PMScheduler has an empty cache.
StartCycle ==
    /\ pc = "sleeping"
    /\ woSeq <= MaxWoSeq
    /\ pc' = "evaluating"
    /\ controls_cache' = controlTable
    /\ today' = clock
    /\ pms' = LoadPMs(pmTable)
    /\ idx' = 1
    /\ generated_wos' = <<>>
    /\ sessPM' = pmTable
    /\ sessWO' = {}
    /\ sessMeter' = NoMeterCache
    /\ sessBroken' = FALSE
    /\ sessJobPlan' = jobPlanTable
    /\ hist' = [hist EXCEPT
                  !.prev = IF hist.end = "commit" /\ ~hist.dirty THEN hist.cur ELSE {},
                  !.cur = {}, !.curGen = {}, !.failed = {}, !.dirty = FALSE,
                  !.pre = pmTable, !.seq0 = woSeq, !.end = "none", !.out = "none", !.outPM = 0]
    /\ UNCHANGED <<clock, dbVars, probe, ccVars, apiVars>>

\* One iteration of "for pm in pms": the pause test, _should_generate_wo and
\* _generate_work_order.
ProcessPM ==
    /\ pc = "evaluating"
    /\ idx <= Len(pms)
    /\ ~sessBroken
    /\ LET p == pms[idx]
           pm == sessPM[p]
           meters == ViewMeters
           wo_count == Cardinality({w \in woTable \cup sessWO :
                                       w.organization_id = pm.organization_id})
           wo_number == wo_count + 1
           wo == NewWorkOrder(pm, p, woSeq, wo_number)
           evalCache == IF EvalReadsMeter(pm, today)
                        THEN Touch(sessMeter, pm.meter_id) ELSE sessMeter
       IN
       IF Paused(controls_cache, pm.organization_id)
       THEN \* continue
            /\ hist' = [hist EXCEPT !.out = "skipped", !.outPM = p]
            /\ UNCHANGED <<sessPM, sessWO, sessMeter, sessBroken, woSeq, generated_wos>>
       ELSE IF ~ShouldGenerateWO(pm, today, meters)
       THEN /\ sessMeter' = evalCache
            /\ hist' = [hist EXCEPT !.out = "notdue", !.outPM = p]
            /\ UNCHANGED <<sessPM, sessWO, sessBroken, woSeq, generated_wos>>
       ELSE IF \E w \in woTable \cup sessWO : w.wo_number = wo_number
       THEN \* flush: unique violation on wo_number; the failed flush rolls
            \* the transaction back, the except clause returns None
            /\ sessBroken' = TRUE
            /\ sessWO' = {}
            /\ sessPM' = pmTable
            /\ sessMeter' = evalCache
            /\ woSeq' = woSeq + 1
            /\ hist' = [hist EXCEPT !.out = "failed", !.outPM = p,
                                    !.failed = @ \cup {p}]
            /\ UNCHANGED generated_wos
       ELSE IF CalcNextDueRaises(TrackedPM(pm, clock, woSeq), clock)
       THEN \* _calculate_next_due_date raises after the insert and the
            \* tracking update; the except clause returns None
            /\ sessWO' = sessWO \cup {wo}
            /\ sessPM' = [sessPM EXCEPT ![p] = TrackedPM(pm, clock, woSeq)]
            /\ sessMeter' = evalCache
            /\ woSeq' = woSeq + 1
            /\ hist' = [hist EXCEPT !.out = "failed", !.outPM = p,
                                    !.failed = @ \cup {p}]
            /\ UNCHANGED <<sessBroken, generated_wos>>
       ELSE /\ sessWO' = sessWO \cup {wo}
            /\ sessPM' = [sessPM EXCEPT ![p] = GeneratedPM(pm, clock, woSeq, meters)]
            /\ sessMeter' = IF Truthy(pm.meter_id) /\ Truthy(pm.meter_interval)
                            THEN Touch(evalCache, pm.meter_id) ELSE evalCache
            /\ woSeq' = woSeq + 1
            /\ generated_wos' = Append(generated_wos, woSeq)
            /\ hist' = [hist EXCEPT !.out = "generated", !.outPM = p,
                                    !.cur = @ \cup {p}, !.curGen = @ \cup {<<p, woSeq, pm.next_due_date>>},
                                    !.okIds = @ \cup {woSeq}]
            /\ UNCHANGED sessBroken
    /\ idx' = idx + 1
    /\ UNCHANGED <<clock, pmTable, meterTable, controlTable, woTable, pc,
                   today, controls_cache, pms, others>>

\* The UPDATE the unit of work emits for one definition at commit: only the
\* columns whose value differs from the one loaded are written, the others
\* keep what the table holds by then.
FlushedPM(stored, loaded, pm) ==
    [c \in DOMAIN stored |-> IF pm[c] # loaded[c] THEN pm[c] ELSE stored[c]]

\* db.commit() after the loop: the single commit of the cycle.
Commit ==
    /\ pc = "evaluating"
    /\ idx > Len(pms)
    /\ ~sessBroken
    /\ pmTable' = [q \in DOMAIN pmTable |-> FlushedPM(pmTable[q], hist.pre[q], sessPM[q])]
    /\ woTable' = woTable \cup sessWO
    /\ pc' = "sleeping"
    /\ sessWO' = {}
    /\ sessMeter' = NoMeterCache
    /\ generated_wos' = <<>>
    /\ pms' = <<>>
    /\ idx' = 1
    /\ hist' = [hist EXCEPT !.end = "commit"]
    /\ UNCHANGED <<clock, meterTable, controlTable, woSeq, today,
                   controls_cache, sessPM, sessBroken, others>>

\* Variant of AbortCycle in which the exception leaves run_pm_scheduler: the
\* task ends with the failed cycle.
AbortCycle_Exits ==
    /\ pc = "evaluating"
    /\ sessBroken
    /\ pc' = "stopped"
    /\ sessPM' = pmTable
    /\ sessWO' = {}
    /\ sessMeter' = NoMeterCache
    /\ sessBroken' = FALSE
    /\ generated_wos' = <<>>
    /\ pms' = <<>>
    /\ idx' = 1
    /\ hist' = [hist EXCEPT !.end = "raise"]
    /\ UNCHANGED <<clock, dbVars, today, controls_cache, others>>

\* The first statement on the session after a failed flush (the next
\* attribute load or db.commit()) raises; the exception leaves
\* process_due_pms, the session closes without a commit and
\* run_pm_scheduler logs the error and sleeps.
AbortCycle ==
    /\ pc = "evaluating"
    /\ sessBroken
    /\ pc' = "sleeping"
    /\ sessPM' = pmTable
    /\ sessWO' = {}
    /\ sessMeter' = NoMeterCache
    /\ sessBroken' = FALSE
    /\ generated_wos' = <<>>
    /\ pms' = <<>>
    /\ idx' = 1
    /\ hist' = [hist EXCEPT !.end = "raise"]
    /\ UNCHANGED <<clock, dbVars, today, controls_cache, others>>

\* lifespan shutdown: scheduler_task.cancel() raises CancelledError at the
\* await the task is suspended on; an open session closes without a commit.
Cancel ==
    /\ pc \in {"sleeping", "evaluating"}
    /\ pc' = "stopped"
    /\ sessPM' = pmTable
    /\ sessWO' = {}
    /\ sessMeter' = NoMeterCache
    /\ sessBroken' = FALSE
    /\ generated_wos' = <<>>
    /\ pms' = <<>>
    /\ idx' = 1
    /\ hist' = [hist EXCEPT !.end = IF pc = "evaluating" THEN "cancel" ELSE @]
    /\ UNCHANGED <<clock, dbVars, today, controls_cache, others>>

\* Midnight passes.
Tick ==
    /\ pc # "stopped"
    /\ clock < MaxDay
    /\ clock' = clock + 1
    /\ hist' = [hist EXCEPT !.dirty = TRUE]
    /\ UNCHANGED <<dbVars, pc, cycleVars, sessVars, others>>

\* A new reading is recorded on a meter (outside the scheduler).
RecordReading ==
    /\ pc # "stopped"
    /\ \E m \in MeterIds, v \in 0..MaxReading :
          /\ v > meterTable[m].last_reading
          /\ meterTable' = [meterTable EXCEPT ![m].last_reading = v]
    /\ hist' = [hist EXCEPT !.dirty = TRUE]
    /\ UNCHANGED <<clock, pmTable, controlTable, woTable, woSeq, pc,
                   cycleVars, sessVars, others>>

Next ==
    \/ StartCycle
    \/ ProcessPM
    \/ Commit
    \/ AbortCycle
    \/ Cancel
    \/ Tick
    \/ RecordReading

Spec == Init /\ [][Next]_vars

TypeOK ==
    /\ pc \in {"sleeping", "evaluating", "stopped"}
    /\ clock \in 0..MaxDay
    /\ idx \in 1..(Cardinality(PMIds) + 1)
-----------------------------------------------------------------------------
(* One definition evaluated and generated by itself: _should_generate_wo    *)
(* and the tracking update of _generate_work_order over a wide range of     *)
(* definitions, days and meter readings.                                    *)

\* The maintenance scheduler at rest on a store that holds no work orders.
PMIdleOn(wos) ==
    /\ clock = 0
    /\ pmTable = [q \in PMIds |-> NoProbe.pm]
    /\ meterTable = [m \in MeterIds |-> [exists |-> TRUE, last_reading |-> None]]
    /\ controlTable = [o \in Orgs |-> [exists |-> FALSE, pause_pm |-> FALSE, pause_cycle_counts |-> FALSE]]
    /\ woTable = wos
    /\ woSeq = Cardinality(wos) + 1
    /\ pc = "stopped"
    /\ today = 0
    /\ controls_cache = controlTable
    /\ pms = <<>>
    /\ idx = 1
    /\ generated_wos = <<>>
    /\ sessPM = pmTable
    /\ sessWO = {}
    /\ sessMeter = NoMeterCache
    /\ sessBroken = FALSE
    /\ jobPlanTable = InitialJobPlans
    /\ sessJobPlan = InitialJobPlans
    /\ partTable = PartRows
    /\ hist = InitHist(pmTable)

PMIdle == PMIdleOn({})

FnFrequencies == {<<30, "DAYS">>, <<1, "DAYS">>, <<2, "WEEKS">>, <<1, "MONTHS">>,
                  <<1, "YEARS">>, <<None, "NONE">>}
FnDueDates == {None, 0, 30, 59, 100}
FnLeadTimes == {0, 7}
FnDays == {0, 23, 45, 59, 93, 160, 340}
\* <<meter_id, meter_interval, next_meter_reading, Meter.last_reading>>
FnMeters == {<<None, None, None, None>>, <<1, 10, 10, None>>, <<1, 10, 10, 5>>,
             <<1, 10, 10, 10>>, <<1, 10, None, 10>>}
\* <<seasonal_start_month, seasonal_end_month, excluded_days>>
FnGates == {<<None, None, NoExcluded>>,
            <<11, 3, NoExcluded>>,
            <<4, 10, NoExcluded>>,
            <<None, None, [present |-> TRUE, weekdays |-> {1}, dates |-> {<<2024, 2, 15>>}]>>}

FnProbes ==
    {[pm |-> WithGates(MkPM(1, trig, sched, fu[1], fu[2], lead, due,
                            mt[1], mt[2], mt[3], TRUE),
                       g[1], g[2], g[3], None),
      today |-> day, reading |-> mt[4], phase |-> "input", due |-> FALSE,
      after |-> NoProbe.after] :
        trig \in TriggerTypes, sched \in ScheduleTypes, fu \in FnFrequencies,
        lead \in FnLeadTimes, due \in FnDueDates, mt \in FnMeters,
        g \in FnGates, day \in FnDays}

ProbeMeters == [m \in MeterIds |-> [exists |-> TRUE, last_reading |-> probe.reading]]

InitFn ==
    /\ PMIdle
    /\ probe \in FnProbes
    /\ CCIdle
    /\ ApiIdle

\* _should_generate_wo(pm, today, db)
FnEvaluate ==
    /\ probe.phase = "input"
    /\ probe' = [probe EXCEPT !.phase = "evaluated",
                              !.due = ShouldGenerateWO(probe.pm, probe.today, ProbeMeters)]
    /\ UNCHANGED <<pmVars, ccVars, apiVars>>

\* "if should_generate": the tracking update of _generate_work_order on the
\* day of the evaluation.
FnGenerate ==
    /\ probe.phase = "evaluated"
    /\ probe.due
    /\ ~CalcNextDueRaises(probe.pm, probe.today)
    /\ probe' = [probe EXCEPT !.phase = "generated",
                              !.after = GeneratedPM(probe.pm, probe.today, 1, ProbeMeters)]
    /\ UNCHANGED <<pmVars, ccVars, apiVars>>

NextFn ==
    \/ FnEvaluate
    \/ FnGenerate

SpecFn == InitFn /\ [][NextFn]_vars

\* The definition under evaluation has no seasonal window and no excluded days.
FnNoGates ==
    /\ probe.pm.seasonal_start_month = None
    /\ probe.pm.seasonal_end_month = None
    /\ ~probe.pm.excluded_days.present

\* C3: a TIME_OR_METER definition whose lead window has not opened but whose
\* meter reading is at or above next_meter_reading evaluates as due.
C3_MeterFiresBeforeLeadWindow ==
    (/\ probe.phase # "input"
     /\ probe.pm.trigger_type = "TIME_OR_METER"
     /\ probe.pm.next_due_date # None
     /\ probe.today < probe.pm.next_due_date - probe.pm.lead_time_days
     /\ probe.pm.meter_id # None /\ probe.pm.meter_interval > 0
     /\ probe.reading # None /\ probe.pm.next_meter_reading # None
     /\ probe.reading >= probe.pm.next_meter_reading
     /\ FnNoGates) => probe.due

\* C4: a TIME definition with next due date D and no gate is due exactly on
\* the days today >= D - lead_time_days.
C4_TimeDueFromLeadDate ==
    (/\ probe.phase # "input"
     /\ probe.pm.trigger_type = "TIME"
     /\ probe.pm.next_due_date # None
     /\ FnNoGates) =>
        (probe.due <=> probe.today >= probe.pm.next_due_date - probe.pm.lead_time_days)

\* C4 witness: a TIME definition evaluated on the first day of its lead
\* window, and found due.
C4_Witness ==
    /\ probe.phase = "evaluated"
    /\ probe.pm.trigger_type = "TIME"
    /\ FnNoGates
    /\ probe.pm.lead_time_days > 0
    /\ probe.today = probe.pm.next_due_date - probe.pm.lead_time_days
    /\ probe.due

\* The date `after` is `base` advanced by f units.
Advanced(base, after, f, unit) ==
    LET b == DateOf(base)
        a == DateOf(after)
    IN  IF unit = "DAYS" THEN after = base + f
        ELSE IF unit = "WEEKS" THEN after = base + 7 * f
        ELSE IF unit = "MONTHS"
             THEN /\ 12 * a.y + a.m = 12 * b.y + b.m + f
                  /\ a.d = Min(b.d, MonthRange(a.y, a.m))
        ELSE /\ a.y = b.y + f /\ a.m = b.m
             /\ a.d = (IF b.m = 2 /\ b.d = 29 /\ ~IsLeap(a.y) THEN 28 ELSE b.d)

-----------------------------------------------------------------------------
(* Properties of the maintenance scheduler                                  *)

\* Work orders of a definition, committed or flushed in the open transaction.
WOsOf(p) == {w \in woTable \cup sessWO : w.pm_id = p}

\* A lower bound, in days, of the frequency interval of a definition.
MinIntervalDays(pm) ==
    IF pm.frequency_unit = "DAYS" THEN pm.frequency
    ELSE IF pm.frequency_unit = "WEEKS" THEN 7 * pm.frequency
    ELSE IF pm.frequency_unit = "MONTHS" THEN 28 * pm.frequency
    ELSE 365 * pm.frequency

\* The second of two cycles run back to back: the previous cycle committed
\* and neither the date nor a meter changed since it started.
BackToBack(p) == p \in hist.prev /\ ~hist.dirty

\* C1 (as stated): two cycles in immediate succession on the same day, with
\* no other change to the store, generate at most one work order per
\* definition: a definition that generated in the first cycle does not
\* generate in the second.
C1_AtMostOncePerDefinition ==
    \A p \in PMIds : BackToBack(p) => p \notin hist.cur

\* C1 (amended): a definition that generated in the first of two back-to-back
\* cycles generates again in the second only when its advanced next due date
\* minus the lead time is still not later than today (a FIXED definition
\* with a backlog, or a lead time of at least the frequency interval); a
\* METER or TIME_AND_METER definition with a positive meter interval never
\* does, and a TIME_OR_METER definition with a positive meter interval only
\* when its advanced next due date itself is not later than today.
C1_RegeneratesOnlyWhileStillDue ==
    \A p \in PMIds :
        (BackToBack(p) /\ p \in hist.cur) =>
            \E g \in hist.curGen :
                /\ g[1] = p
                /\ g[3] - pmTable[p].lead_time_days <= today
                /\ pmTable[p].trigger_type # "CONDITION"
                /\ pmTable[p].trigger_type \in {"METER", "TIME_AND_METER"} =>
                       ~(pmTable[p].meter_interval # None /\ pmTable[p].meter_interval > 0)
                /\ (/\ pmTable[p].trigger_type = "TIME_OR_METER"
                    /\ pmTable[p].meter_interval # None
                    /\ pmTable[p].meter_interval > 0) => g[3] <= today

\* C1 witness: in the second of two back-to-back cycles a FLOATING definition
\* whose lead time covers its whole interval has generated again.
C1_Witness ==
    \E p \in PMIds :
        /\ BackToBack(p)
        /\ p \in hist.cur
        /\ pmTable[p].schedule_type = "FLOATING"
        /\ pmTable[p].lead_time_days >= MinIntervalDays(pmTable[p])

\* C2: no two work orders generated from the same definition carry the same
\* due date.
C2_OneWorkOrderPerDueDate ==
    \A w1 \in woTable : \A w2 \in woTable :
        (/\ w1.id \in hist.okIds /\ w2.id \in hist.okIds
         /\ w1.pm_id = w2.pm_id /\ w1.due_date = w2.due_date) => w1.id = w2.id

\* The loop is about to handle a FIXED TIME definition that is due, is not
\* paused, has no seasonal or excluded-day gate and a valid frequency.
C6_DueFixedTime ==
    /\ pc = "evaluating" /\ idx <= Len(pms)
    /\ LET pm == sessPM[pms[idx]]
       IN  /\ pm.trigger_type = "TIME" /\ pm.schedule_type = "FIXED"
           /\ pm.frequency # None /\ pm.frequency >= 1 /\ pm.frequency <= 100
           /\ pm.frequency_unit \in FrequencyUnits
           /\ ~(controls_cache[pm.organization_id].exists
                /\ controls_cache[pm.organization_id].pause_pm)
           /\ ~Truthy(pm.seasonal_start_month)
           /\ ~pm.excluded_days.present
           /\ today >= pm.next_due_date - pm.lead_time_days

\* C6: a poll that handles an overdue FIXED TIME definition generates exactly
\* one work order for it, due on the definition's next due date, and advances
\* the next due date by exactly one period.
C6_CatchUpOnePerPoll ==
    [][(C6_DueFixedTime /\ (idx' = idx + 1 \/ pc' = "sleeping")) =>
         LET p == pms[idx]
             old == sessPM[p].next_due_date
         IN  /\ \E w \in sessWO' :
                   /\ w.pm_id = p /\ w.due_date = old
                   /\ sessWO' = sessWO \cup {w} /\ w \notin sessWO
             /\ sessPM'[p].next_due_date > old
             /\ sessPM'[p].next_due_date - old <= 366 * sessPM[p].frequency
             /\ sessPM'[p].next_due_date - old >= MinIntervalDays(sessPM[p])]_vars

\* C8: when a cycle has ended, however it ended, every generation that
\* succeeded in it before the definition handled last is in the store.
C8_EarlierGenerationsDurable ==
    (pc # "evaluating" /\ hist.end # "none") =>
        \A g \in hist.curGen :
            g[1] # hist.outPM => \E w \in woTable : w.id = g[2]

\* C9: after a generation failed for a definition the cycle goes on to its
\* commit, and the committed store holds no work order of this cycle for the
\* definition and the definition's tracking columns as they were before.
C9_FailedGenerationIsolated ==
    \A p \in hist.failed :
        /\ hist.end # "raise"
        /\ hist.end = "commit" =>
              /\ ~\E w \in woTable : w.pm_id = p /\ w.id >= hist.seq0
              /\ TrackingOf(pmTable[p]) = TrackingOf(hist.pre[p])

\* C10: during a cycle a definition that is inactive, or whose tenant has
\* pause_pm set in the controls read at the start of the cycle, gets no work
\* order and keeps its tracking columns; the loop skips a definition only
\* when its tenant has a control row with pause_pm set.
C10_SkipRule ==
    [][pc = "evaluating" =>
         /\ \A p \in PMIds :
               (\/ ~pmTable[p].is_active
                \/ /\ controls_cache[pmTable[p].organization_id].exists
                   /\ controls_cache[pmTable[p].organization_id].pause_pm) =>
                   /\ TrackingOf(sessPM'[p]) = TrackingOf(sessPM[p])
                   /\ TrackingOf(pmTable'[p]) = TrackingOf(pmTable[p])
                   /\ WOsOf(p)' = WOsOf(p)
         /\ (idx' = idx + 1 /\ idx <= Len(pms)) =>
               (hist'.out = "skipped" <=>
                   /\ controls_cache[pmTable[pms[idx]].organization_id].exists
                   /\ controls_cache[pmTable[pms[idx]].organization_id].pause_pm)]_vars

\* C10 witness: the loop has just skipped a definition of a paused tenant
\* that the trigger evaluation finds due.
C10_Witness ==
    /\ hist.out = "skipped"
    /\ hist.outPM \in PMIds
    /\ controlTable[pmTable[hist.outPM].organization_id].pause_pm
    /\ ShouldGenerateWO(pmTable[hist.outPM], today, ViewMeters)
    /\ WOsOf(hist.outPM) = {}

\* C19: a work order the generator adds is APPROVED, belongs to the
\* definition the loop is handling and to its tenant, and is due on the
\* definition's next_due_date as it was before the call; after the call the
\* definition's last_wo_date is the day of the call and its last_wo_id the
\* new work order's id; the commit stores the work order and the tracking
\* columns as they are.
C19_GeneratedWorkOrder ==
    [][/\ \A w \in sessWO' \ sessWO :
            /\ w.status = "APPROVED"
            /\ w.pm_id = pms[idx]
            /\ w.organization_id = sessPM[w.pm_id].organization_id
            /\ w.due_date = sessPM[w.pm_id].next_due_date
            /\ sessPM'[w.pm_id].last_wo_date = clock
            /\ sessPM'[w.pm_id].last_wo_id = w.id
       /\ \A w \in woTable' \ woTable :
            /\ w \in sessWO
            /\ w.status = "APPROVED"
            /\ pmTable'[w.pm_id].last_wo_id = w.id
            /\ pmTable'[w.pm_id].last_wo_date = sessPM[w.pm_id].last_wo_date
      ]_vars

\* C19 witness: the generator has just added a work order whose due date is
\* the date the definition has moved on from.
C19_Witness ==
    /\ pc = "evaluating"
    /\ hist.out = "generated"
    /\ \E w \in sessWO :
          /\ w.pm_id = hist.outPM
          /\ sessPM[w.pm_id].last_wo_id = w.id
          /\ sessPM[w.pm_id].last_wo_date = clock
          /\ w.due_date # None
          /\ sessPM[w.pm_id].next_due_date > w.due_date

-----------------------------------------------------------------------------
(* Count plans: services/cycle_count_scheduler.py                           *)

\* Most material transactions the store holds.
MaxTxns == 2

\* Datetimes are counted in half days: utcnow() and the date of a datetime.
UtcNow == 2 * clock + ccHalf
DateOfDatetime(dt) == dt \div 2

\* str.lower() on the characters bin locations are written with.
Lower(c) == IF c = "A" THEN "a" ELSE IF c = "B" THEN "b" ELSE c

\* StockLevel.bin_location.ilike(f"{prefix}%"); <<>> is a missing location.
ILikePrefix(bin, prefix) ==
    /\ Len(prefix) <= Len(bin)
    /\ \A i \in 1..Len(prefix) : Lower(bin[i]) = Lower(prefix[i])

\* Storeroom rows by id: tenant 1 has a default storeroom, tenant 2 has not.
StoreroomRows ==
    <<[organization_id |-> 1, is_default |-> TRUE],
      [organization_id |-> 2, is_default |-> FALSE]>>

\* StockLevel rows by id, before any material was issued.
InitialStock ==
    <<[part_id |-> 1, storeroom_id |-> 1, bin_location |-> <<"A", "1">>,
       current_balance |-> 5, last_issue_date |-> None, last_receipt_date |-> None],
      [part_id |-> 2, storeroom_id |-> 1, bin_location |-> <<"b", "7">>,
       current_balance |-> 2, last_issue_date |-> None, last_receipt_date |-> 0],
      [part_id |-> 3, storeroom_id |-> 2, bin_location |-> <<>>,
       current_balance |-> 1, last_issue_date |-> None, last_receipt_date |-> 0]>>

\* A CycleCountPlan row as create_cycle_count_plan stores it.
MkPlan(org, name, store, f, u, nrd, bin, cats, ptype, used, zero, trans, limit, tmpl) ==
    [organization_id |-> org, name |-> name, storeroom_id |-> store,
     is_active |-> TRUE, is_paused |-> FALSE,
     frequency_value |-> f, frequency_unit |-> u,
     next_run_date |-> nrd, last_run_at |-> None,
     bin_prefix |-> bin, category_ids |-> cats, part_type_filter |-> ptype,
     used_in_last_days |-> used, usage_start_date |-> None, usage_end_date |-> None,
     include_zero_movement |-> zero, transacted_only |-> trans,
     line_limit |-> limit, template_type |-> tmpl]

\* _advance_date
AdvanceDate(current, value, unit) ==
    IF unit = "DAYS" THEN AddDays(current, value)
    ELSE IF unit = "WEEKS" THEN AddWeeks(current, value)
    ELSE IF unit = "MONTHS" THEN AddMonths(current, value)
    ELSE current

\* The usage subquery of _select_stock_for_plan: the parts with a matching
\* material transaction.
UsageParts(plan, txns, now) ==
    {t.part_id : t \in
        {u \in txns :
            /\ u.organization_id = plan.organization_id
            /\ Truthy(plan.storeroom_id) => u.storeroom_id = plan.storeroom_id
            /\ Truthy(plan.used_in_last_days) =>
                   u.created_at >= now - 2 * plan.used_in_last_days
            /\ plan.usage_start_date # None =>
                   DateOfDatetime(u.created_at) >= plan.usage_start_date
            /\ plan.usage_end_date # None =>
                   DateOfDatetime(u.created_at) <= plan.usage_end_date
            /\ plan.transacted_only => u.transaction_type = "ISSUE"}}

\* The WHERE clauses of _select_stock_for_plan: the ids of the stock rows
\* the plan's filters keep.
MatchingStock(plan, stock, txns, now) ==
    {k \in 1..Len(stock) :
        LET part == partTable[stock[k].part_id]
        IN  /\ part.organization_id = plan.organization_id
            /\ Truthy(plan.storeroom_id) => stock[k].storeroom_id = plan.storeroom_id
            /\ plan.bin_prefix # <<>> => ILikePrefix(stock[k].bin_location, plan.bin_prefix)
            /\ plan.category_ids # {} => part.category_id \in plan.category_ids
            /\ plan.part_type_filter # "" => part.part_type = plan.part_type_filter
            /\ IF \/ Truthy(plan.used_in_last_days)
                  \/ plan.usage_start_date # None
                  \/ plan.usage_end_date # None
                  \/ plan.transacted_only
               THEN stock[k].part_id \in UsageParts(plan, txns, now)
               ELSE IF ~plan.include_zero_movement
               THEN \/ stock[k].last_issue_date # None
                    \/ stock[k].last_receipt_date # None
               ELSE TRUE}

\* query.limit(line_limit) without ORDER BY: the results the database may
\* return for the matching rows.
LimitedSelections(rows, limit) ==
    IF Truthy(limit)
    THEN {sel \in SUBSET rows : Cardinality(sel) = Min(limit, Cardinality(rows))}
    ELSE {rows}

\* The plans _ensure_default_plans adds for one tenant.
DefaultsFor(org, table, day) ==
    LET stores == {k \in 1..Len(StoreroomRows) :
                      /\ StoreroomRows[k].organization_id = org
                      /\ StoreroomRows[k].is_default}
        Has(tmpl) == \E i \in 1..Len(table) :
                        /\ table[i].organization_id = org
                        /\ table[i].template_type = tmpl
    IN  IF stores = {} THEN table
        ELSE LET store == CHOOSE k \in stores : TRUE
                 weekly == MkPlan(org, "Weekly Transacted Inventory", store, 7, "DAYS",
                                  day, <<>>, {}, "", 7, FALSE, TRUE, None,
                                  "WEEKLY_TRANSACTED")
                 monthly == MkPlan(org, "Monthly Transacted Inventory", store, 1, "MONTHS",
                                   day, <<>>, {}, "", 30, FALSE, TRUE, None,
                                   "MONTHLY_TRANSACTED")
             IN  table \o (IF Has("WEEKLY_TRANSACTED") THEN <<>> ELSE <<weekly>>)
                       \o (IF Has("MONTHLY_TRANSACTED") THEN <<>> ELSE <<monthly>>)

\* _ensure_default_plans over the tenants, in primary-key order.
EnsureDefaultPlans(table, day) == DefaultsFor(2, DefaultsFor(1, table, day), day)

\* The SELECT of process_due_plans, in primary-key order.
RECURSIVE IdsUpTo(_)
IdsUpTo(n) == IF n = 0 THEN <<>> ELSE Append(IdsUpTo(n - 1), n)

DuePlans(table, day) ==
    SelectSeq(IdsUpTo(Len(table)),
              LAMBDA i : /\ table[i].is_active
                         /\ table[i].next_run_date # None
                         /\ table[i].next_run_date <= day)

\* A cycle that ignores the tenant-wide flag.
CountsPaused_Ignored(controls, org) == FALSE

\* A loop that looks the tenant-wide flag up in the table at every plan.
CountsPaused_Live(controls, org) ==
    controlTable[org].exists /\ controlTable[org].pause_cycle_counts

\* "control and control.pause_cycle_counts" in process_due_plans.
CountsPaused(controls, org) == controls[org].exists /\ controls[org].pause_cycle_counts

\* The CycleCount row and its CycleCountLine rows built by
\* _create_cycle_count_from_plan.
NewCycleCount(plan, id, sel, store, stock, day) ==
    [id |-> id, organization_id |-> plan.organization_id,
     name |-> <<plan.name, IsoFormat(day)>>, status |-> "PLANNED",
     storeroom_id |-> store, scheduled_date |-> day,
     total_lines |-> Cardinality(sel),
     lines |-> {[part_id |-> stock[k].part_id, stock_level_id |-> k,
                 expected_quantity |-> stock[k].current_balance,
                 bin_location |-> stock[k].bin_location,
                 needs_recount |-> FALSE,
                 part_number |-> partTable[stock[k].part_id].part_number,
                 part_name |-> partTable[stock[k].part_id].name,
                 part_type |-> partTable[stock[k].part_id].part_type,
                 part_category_id |-> partTable[stock[k].part_id].category_id,
                 last_issue_date |-> stock[k].last_issue_date,
                 last_receipt_date |-> stock[k].last_receipt_date,
                 counted_quantity |-> None, variance |-> None] : k \in sel}]

\* The plan after a count was created from it: last_run_at and next_run_date.
RunPlan(plan, now, day) ==
    [plan EXCEPT !.last_run_at = now,
                 !.next_run_date =
                     AdvanceDate(IF plan.next_run_date # None
                                 THEN plan.next_run_date ELSE day,
                                 plan.frequency_value, plan.frequency_unit)]

-----------------------------------------------------------------------------
(* CycleCountScheduler.process_due_plans on a store with stock              *)

\* Last half day the count scheduler is followed to.
MaxCountHalfDays == 1

\* The plan tables the count scheduler starts on: plans made through
\* create_cycle_count_plan before the first cycle.
CCProfiles ==
    {MkPlan(1, "Receipts", 1, 1, "DAYS", 0, <<>>, {}, "", None, FALSE, FALSE, None, ""),
     MkPlan(1, "Aisle A", None, 1, "WEEKS", 0, <<"a">>, {}, "STOCK", None, FALSE, FALSE, None, ""),
     MkPlan(1, "Recent use", 1, 2, "DAYS", 0, <<>>, {}, "", 1, FALSE, FALSE, None, ""),
     MkPlan(1, "Any one", None, 1, "MONTHS", 0, <<>>, {1, 2}, "", None, TRUE, FALSE, 1, ""),
     [MkPlan(1, "Off", 1, 1, "DAYS", 0, <<>>, {}, "", None, TRUE, FALSE, None, "")
         EXCEPT !.is_active = FALSE],
     MkPlan(1, "Unscheduled", 1, 1, "DAYS", None, <<>>, {}, "", None, TRUE, FALSE, None, ""),
     MkPlan(2, "Tenant 2", 2, 1, "DAYS", 0, <<>>, {}, "", None, FALSE, FALSE, None, "")}

\* A work order entered by hand for tenant 1, against which material is issued.
ManualWorkOrder ==
    [id |-> 1, organization_id |-> 1, wo_number |-> 1, pm_id |-> None,
     due_date |-> None, status |-> "APPROVED", work_type |-> "CORRECTIVE",
     actual_start |-> None, actual_end |-> None,
     tasks |-> <<>>]

\* The material_transactions rows the store starts with: one return.
InitialTxns ==
    {[organization_id |-> 1, part_id |-> 2, storeroom_id |-> 1,
      transaction_type |-> "RETURN", created_at |-> 0]}

\* <<part_id, storeroom_id, transaction_type>> of the material bookings made.
IssueInputs == {<<1, 1, "ISSUE">>}

\* The plans an administrator pauses and resumes.
PausablePlans == {1}

InitCC ==
    /\ PMIdleOn({ManualWorkOrder})
    /\ probe = NoProbe
    /\ ccHalf = 0
    /\ ccPlanTable \in {<<>>} \cup {<<pl>> : pl \in CCProfiles}
    /\ ccCountTable = {}
    /\ ccStockTable = InitialStock
    /\ ccTxnTable = InitialTxns
    /\ ccSeq = 1
    /\ ccPc = "idle"
    /\ ccCycle = NoCycle
    /\ ccSess = NoSession
    /\ ccLast = NoLast
    /\ ApiIdle

pmRest == <<pmTable, meterTable, woTable, woSeq, pc, cycleVars, sessVars, hist, probe,
            catalogVars, apiVars>>

\* process_due_plans up to its for loop: _ensure_default_plans, flush,
\* _get_controls, today and the SELECT of the due plans.
CCStart ==
    /\ ccPc = "idle"
    /\ LET table == EnsureDefaultPlans(ccPlanTable, clock)
       IN  /\ ccSess' = [plans |-> table, dirty |-> {}, counts |-> {}]
           /\ ccCycle' = [today |-> clock, controls |-> controlTable,
                          plans |-> DuePlans(table, clock), idx |-> 1,
                          generated |-> <<>>]
    /\ ccPc' = "looping"
    /\ ccLast' = NoLast
    /\ UNCHANGED <<clock, controlTable, pmRest, ccHalf, ccPlanTable, ccCountTable,
                   ccStockTable, ccTxnTable, ccSeq>>

\* One iteration of the for loop of process_due_plans, with
\* _create_cycle_count_from_plan.
CCProcessPlan ==
    /\ ccPc = "looping"
    /\ ccCycle.idx <= Len(ccCycle.plans)
    /\ LET p    == ccCycle.plans[ccCycle.idx]
           plan == ccSess.plans[p]
           step == [ccCycle EXCEPT !.idx = ccCycle.idx + 1]
       IN  IF CountsPaused(ccCycle.controls, plan.organization_id) \/ plan.is_paused
           THEN \* continue
                /\ ccCycle' = step
                /\ ccLast' = [plan |-> p, outcome |-> "skipped",
                              before |-> plan.next_run_date,
                              after |-> plan.next_run_date,
                              counts |-> 0, raised |-> FALSE]
                /\ UNCHANGED <<ccSess, ccSeq>>
           ELSE \E sel \in LimitedSelections(
                               MatchingStock(plan, ccStockTable, ccTxnTable, UtcNow),
                               plan.line_limit) :
                  IF sel = {}
                  THEN \* "if not stock_rows: return None"
                       /\ ccCycle' = step
                       /\ ccLast' = [plan |-> p, outcome |-> "empty",
                                     before |-> plan.next_run_date,
                                     after |-> plan.next_run_date,
                                     counts |-> 0, raised |-> FALSE]
                       /\ UNCHANGED <<ccSess, ccSeq>>
                  ELSE \E first \in sel :
                       LET store == IF Truthy(plan.storeroom_id)
                                    THEN plan.storeroom_id
                                    ELSE ccStockTable[first].storeroom_id
                           cc    == NewCycleCount(plan, ccSeq, sel, store,
                                                  ccStockTable, clock)
                           ran   == RunPlan(plan, UtcNow, clock)
                       IN  /\ ccSess' = [plans |-> [ccSess.plans EXCEPT ![p] = ran],
                                         dirty |-> ccSess.dirty \cup {p},
                                         counts |-> ccSess.counts \cup {cc}]
                           /\ ccSeq' = ccSeq + 1
                           /\ ccCycle' = [step EXCEPT
                                            !.generated = Append(ccCycle.generated, ccSeq)]
                           /\ ccLast' = [plan |-> p, outcome |-> "created",
                                         before |-> plan.next_run_date,
                                         after |-> ran.next_run_date,
                                         counts |-> 1, raised |-> FALSE]
    /\ UNCHANGED <<clock, controlTable, pmRest, ccHalf, ccPlanTable, ccCountTable,
                   ccStockTable, ccTxnTable, ccPc>>

\* "await db.commit()" of process_due_plans: the new plans and counts are
\* inserted and the changed columns of the plans that ran are updated.
CCCommit ==
    /\ ccPc = "looping"
    /\ ccCycle.idx > Len(ccCycle.plans)
    /\ ccPlanTable' =
          [i \in 1..Len(ccSess.plans) |->
              IF i > Len(ccPlanTable) THEN ccSess.plans[i]
              ELSE IF i \in ccSess.dirty
              THEN [ccPlanTable[i] EXCEPT
                       !.last_run_at = ccSess.plans[i].last_run_at,
                       !.next_run_date = ccSess.plans[i].next_run_date]
              ELSE ccPlanTable[i]]
    /\ ccCountTable' = ccCountTable \cup ccSess.counts
    /\ ccSess' = NoSession
    /\ ccCycle' = NoCycle
    /\ ccLast' = NoLast
    /\ ccPc' = "idle"
    /\ UNCHANGED <<clock, controlTable, pmRest, ccHalf, ccStockTable, ccTxnTable,
                   ccSeq>>

\* Half a day passes.
CCTick ==
    /\ UtcNow < MaxCountHalfDays
    /\ IF ccHalf = 0
       THEN ccHalf' = 1 /\ UNCHANGED clock
       ELSE ccHalf' = 0 /\ clock' = clock + 1
    /\ UNCHANGED <<controlTable, pmRest, ccPlanTable, ccCountTable, ccStockTable,
                   ccTxnTable, ccSeq, ccPc, ccCycle, ccSess, ccLast>>

\* add_material_transaction: material booked on a work order of tenant 1,
\* between two cycles of the count scheduler.
CCIssueMaterial ==
    /\ ccPc = "idle"
    /\ Cardinality(ccTxnTable) < MaxTxns
    /\ \E w \in woTable : w.organization_id = 1
    /\ \E inp \in IssueInputs :
          /\ partTable[inp[1]].organization_id = 1
          /\ ccTxnTable' = ccTxnTable \cup
                {[organization_id |-> 1, part_id |-> inp[1], storeroom_id |-> inp[2],
                  transaction_type |-> inp[3], created_at |-> UtcNow]}
          /\ ccTxnTable' # ccTxnTable
          /\ ccStockTable' =
                IF Truthy(inp[2]) /\ inp[3] = "ISSUE"
                THEN [k \in 1..Len(ccStockTable) |->
                         IF ccStockTable[k].part_id = inp[1]
                            /\ ccStockTable[k].storeroom_id = inp[2]
                         THEN [ccStockTable[k] EXCEPT
                                  !.current_balance = ccStockTable[k].current_balance - 1,
                                  !.last_issue_date = UtcNow]
                         ELSE ccStockTable[k]]
                ELSE ccStockTable
    /\ UNCHANGED <<clock, controlTable, pmRest, ccHalf, ccPlanTable, ccCountTable,
                   ccSeq, ccPc, ccCycle, ccSess, ccLast>>

\* pause_cycle_count_plan
CCPausePlan ==
    /\ \E i \in PausablePlans, paused \in BOOLEAN :
          /\ i <= Len(ccPlanTable)
          /\ ccPlanTable[i].is_paused # paused
          /\ ccPlanTable' = [ccPlanTable EXCEPT ![i].is_paused = paused]
    /\ UNCHANGED <<clock, controlTable, pmRest, ccHalf, ccCountTable, ccStockTable,
                   ccTxnTable, ccSeq, ccPc, ccCycle, ccSess, ccLast>>

\* pause_cycle_counts with _get_or_create_scheduler_control
CCPauseAll ==
    /\ \E org \in Orgs, paused \in BOOLEAN :
          /\ \E i \in 1..Len(ccPlanTable) : ccPlanTable[i].organization_id = org
          /\ ~controlTable[org].exists \/ controlTable[org].pause_cycle_counts # paused
          /\ controlTable' = [controlTable EXCEPT ![org] =
                                 [exists |-> TRUE,
                                  pause_pm |-> controlTable[org].pause_pm,
                                  pause_cycle_counts |-> paused]]
    /\ UNCHANGED <<clock, pmRest, ccVars>>

NextCC ==
    \/ CCStart
    \/ CCProcessPlan
    \/ CCCommit
    \/ CCTick
    \/ CCIssueMaterial
    \/ CCPausePlan
    \/ CCPauseAll

SpecCC == InitCC /\ [][NextCC]_vars

\* C7: a due plan whose filters select no stock row gets no count session,
\* raises no error, and has its next_run_date moved forward.
C7_EmptySelectionAdvances ==
    ccLast.outcome = "empty" =>
        /\ ccLast.counts = 0
        /\ ~ccLast.raised
        /\ ccLast.after > ccLast.before

\* The meter table in which the probe's meter shows reading r.
MetersAt(r) == [m \in MeterIds |-> [exists |-> TRUE, last_reading |-> r]]

\* C18: a generation for a definition with a meter and a meter interval,
\* whose meter has reading r, sets last_meter_reading to r and
\* next_meter_reading to r + meter_interval; with a positive interval the
\* meter trigger is then false at reading r and at every later reading below
\* r + meter_interval, and true from r + meter_interval on.
C18_MeterRearm ==
    (/\ probe.phase = "generated"
     /\ Truthy(probe.pm.meter_id) /\ Truthy(probe.pm.meter_interval)
     /\ probe.reading # None) =>
        /\ probe.after.last_meter_reading = probe.reading
        /\ probe.after.next_meter_reading = probe.reading + probe.pm.meter_interval
        /\ probe.pm.meter_interval > 0 =>
              \A r \in probe.reading .. (probe.reading + probe.pm.meter_interval + 1) :
                  CheckMeterTrigger(probe.after, MetersAt(r))
                      <=> (r - probe.reading >= probe.pm.meter_interval)

\* C18 witness: a METER definition generated with its meter at the target.
C18_Witness ==
    /\ probe.phase = "generated"
    /\ probe.pm.trigger_type = "METER"
    /\ probe.reading = probe.pm.next_meter_reading
    /\ probe.after.next_meter_reading = probe.reading + probe.pm.meter_interval
    /\ ~CheckMeterTrigger(probe.after, ProbeMeters)

-----------------------------------------------------------------------------
(* _create_cycle_count_from_plan on single plans                            *)

\* The units a plan's frequency_unit may hold: the units of the
\* specification's advance(base, quantity, unit).
PlanFrequencyUnits == {"DAYS", "WEEKS", "MONTHS", "YEARS"}
\* frequency_value of the plans run, and the days they are run on.
PlanFrequencyValues == {0, 1, 2, 12}
PlanRunDays == {0, 30, 59, 340}

\* The maintenance scheduler stopped on an empty store, on any day.
PMStopped ==
    /\ pmTable = [q \in PMIds |-> NoProbe.pm]
    /\ meterTable = [m \in MeterIds |-> [exists |-> TRUE, last_reading |-> None]]
    /\ controlTable = [o \in Orgs |-> [exists |-> FALSE, pause_pm |-> FALSE, pause_cycle_counts |-> FALSE]]
    /\ woTable = {}
    /\ woSeq = 1
    /\ pc = "stopped"
    /\ today = 0
    /\ controls_cache = controlTable
    /\ pms = <<>>
    /\ idx = 1
    /\ generated_wos = <<>>
    /\ sessPM = pmTable
    /\ sessWO = {}
    /\ sessMeter = NoMeterCache
    /\ sessBroken = FALSE
    /\ jobPlanTable = InitialJobPlans
    /\ sessJobPlan = InitialJobPlans
    /\ partTable = PartRows
    /\ hist = InitHist(pmTable)

\* One due plan over the received stock of storeroom 1, on the day of its
\* run, morning or afternoon.
InitRun ==
    /\ clock \in PlanRunDays
    /\ PMStopped
    /\ probe = NoProbe
    /\ ccHalf \in {0, 1}
    /\ ccPlanTable \in
          {<<MkPlan(1, "Receipts", 1, f, u, nrd, <<>>, {}, "", None, FALSE, FALSE, None, "")>> :
              f \in PlanFrequencyValues, u \in PlanFrequencyUnits, nrd \in {None, clock}}
    /\ ccCountTable = {}
    /\ ccStockTable = InitialStock
    /\ ccTxnTable = InitialTxns
    /\ ccSeq = 1
    /\ ccPc = "idle"
    /\ ccCycle = NoCycle
    /\ ccSess = NoSession
    /\ ccLast = NoLast
    /\ ApiIdle

\* _create_cycle_count_from_plan(db, plan) on the plan, committed.
CreateCycleCountFromPlan ==
    /\ ccCountTable = {}
    /\ LET plan == ccPlanTable[1]
           sel  == MatchingStock(plan, ccStockTable, ccTxnTable, UtcNow)
           ran  == RunPlan(plan, UtcNow, clock)
       IN  /\ sel # {}
           /\ ccCountTable' = {NewCycleCount(plan, ccSeq, sel, plan.storeroom_id,
                                             ccStockTable, clock)}
           /\ ccPlanTable' = <<ran>>
           /\ ccSeq' = ccSeq + 1
           /\ ccLast' = [plan |-> 1, outcome |-> "created",
                         before |-> plan.next_run_date, after |-> ran.next_run_date,
                         counts |-> 1, raised |-> FALSE]
    /\ UNCHANGED <<clock, controlTable, pmRest, ccHalf, ccStockTable, ccTxnTable,
                   ccPc, ccCycle, ccSess>>

NextRun == CreateCycleCountFromPlan

SpecRun == InitRun /\ [][NextRun]_vars

\* C17: a plan run that creates a count session leaves next_run_date
\* strictly later than it was before the run (set, when it was null), for
\* every frequency unit and value, and sets last_run_at to the time of the run.
C17_NextRunStrictlyLater ==
    [][ccCountTable' # ccCountTable =>
          /\ ccPlanTable'[1].next_run_date # None
          /\ ccPlanTable'[1].next_run_date > ccPlanTable[1].next_run_date
          /\ ccPlanTable'[1].last_run_at = UtcNow]_vars

\* The plan the loop of process_due_plans handles in the step being taken.
CCStepPlan == ccCycle.plans[ccCycle.idx]

\* A count session is added to the session of the running cycle in this step.
CCCreates == ccPc = "looping" /\ ccPc' = "looping" /\ ccSess'.counts # ccSess.counts

C12_PauseFlagsReadOncePerCycle ==
    [][/\ (ccPc = "idle" /\ ccPc' = "looping") =>
            /\ ccCycle'.controls = controlTable
            /\ \A i \in 1..Len(ccPlanTable) :
                  ccSess'.plans[i].is_paused = ccPlanTable[i].is_paused
       /\ (ccPc = "looping" /\ ccPc' = "looping") =>
            /\ ccCycle'.controls = ccCycle.controls
            /\ \A i \in 1..Len(ccSess.plans) :
                  ccSess'.plans[i].is_paused = ccSess.plans[i].is_paused
            /\ ccCycle'.idx # ccCycle.idx =>
                  LET plan == ccSess.plans[CCStepPlan]
                      ctl  == ccCycle.controls[plan.organization_id]
                  IN  (ccLast'.outcome = "skipped") <=>
                         ((ctl.exists /\ ctl.pause_cycle_counts) \/ plan.is_paused)
       /\ (ccPc = "looping" /\ ccPc' = "idle") =>
            /\ controlTable' = controlTable
            /\ \A i \in 1..Len(ccPlanTable) :
                  ccPlanTable'[i].is_paused = ccPlanTable[i].is_paused
      ]_vars

\* A running cycle is about to handle a plan whose tenant-wide flag was
\* toggled after the cycle loaded the control rows.
C12_Witness ==
    /\ ccPc = "looping"
    /\ ccCycle.idx <= Len(ccCycle.plans)
    /\ LET org == ccSess.plans[CCStepPlan].organization_id
       IN  (controlTable[org].exists /\ controlTable[org].pause_cycle_counts)
              # (ccCycle.controls[org].exists /\ ccCycle.controls[org].pause_cycle_counts)

\* The months a seasonal window from start to end admits, counted from the
\* start month round the year to the end month.
WindowMonths(start, end) ==
    {m \in 1..12 : ((m - start) % 12) <= ((end - start) % 12)}

\* C13: a day whose month is outside the seasonal window, whose ISO weekday
\* is excluded or whose ISO date is excluded is not due, whatever the trigger
\* kind; a day whose month is inside the window is not rejected by the
\* seasonal gate (a TIME definition inside its lead window with no excluded
\* day is due); the window 11..3 admits December and February and rejects
\* June.
C13_GatesDominate ==
    probe.phase # "input" =>
        LET pm      == probe.pm
            month   == DateOf(probe.today).m
            window  == Truthy(pm.seasonal_start_month) /\ Truthy(pm.seasonal_end_month)
            inside  == month \in WindowMonths(pm.seasonal_start_month,
                                              pm.seasonal_end_month)
            exclWd  == pm.excluded_days.present
                         /\ IsoWeekday(probe.today) \in pm.excluded_days.weekdays
            exclDt  == pm.excluded_days.present
                         /\ IsoFormat(probe.today) \in pm.excluded_days.dates
            timeDue == /\ pm.trigger_type = "TIME"
                       /\ pm.next_due_date # None
                       /\ probe.today >= pm.next_due_date - pm.lead_time_days
        IN  /\ ((window /\ ~inside) \/ exclWd \/ exclDt) => ~probe.due
            /\ (window /\ inside /\ ~exclWd /\ ~exclDt /\ timeDue) => probe.due
            /\ (pm.seasonal_start_month = 11 /\ pm.seasonal_end_month = 3) =>
                  /\ month = 6 => ~probe.due
                  /\ (month \in {12, 2} /\ ~exclWd /\ ~exclDt /\ timeDue) => probe.due

\* C13 witness: a TIME_AND_METER definition past its due date with its
\* meter at the target, evaluated on an excluded weekday, is not due.
C13_Witness ==
    /\ probe.phase = "evaluated"
    /\ probe.pm.trigger_type = "TIME_AND_METER"
    /\ probe.pm.next_due_date # None /\ probe.today >= probe.pm.next_due_date
    /\ probe.reading # None /\ probe.pm.next_meter_reading # None
    /\ probe.reading >= probe.pm.next_meter_reading
    /\ probe.pm.excluded_days.present
    /\ IsoWeekday(probe.today) \in probe.pm.excluded_days.weekdays
    /\ ~probe.due

\* The lead-time test of a TIME definition.
TimeTest(pm, day) == day >= pm.next_due_date - pm.lead_time_days

\* The METER test: the meter has a reading at or above next_meter_reading.
MeterTest(pm, reading) ==
    /\ reading # None
    /\ pm.next_meter_reading # None
    /\ reading >= pm.next_meter_reading

\* C14: with no gate, a TIME_AND_METER definition is due exactly when the
\* lead-time test of TIME and the METER test both pass, and a TIME_OR_METER
\* definition exactly when one of them passes.
C14_CombinatorsOfTimeAndMeter ==
    (/\ probe.phase # "input"
     /\ FnNoGates
     /\ probe.pm.next_due_date # None
     /\ Truthy(probe.pm.meter_id) /\ Truthy(probe.pm.meter_interval)) =>
        /\ probe.pm.trigger_type = "TIME_AND_METER" =>
              (probe.due <=> (TimeTest(probe.pm, probe.today)
                              /\ MeterTest(probe.pm, probe.reading)))
        /\ probe.pm.trigger_type = "TIME_OR_METER" =>
              (probe.due <=> (TimeTest(probe.pm, probe.today)
                              \/ MeterTest(probe.pm, probe.reading)))

\* C15: a cycle that ran to the end of its loop on an unchanged store has
\* generated a work order for every active METER definition of an unpaused
\* tenant whose next_due_date is null and whose meter reading is at or above
\* next_meter_reading.
C15_MeterOnlyWithoutDueDate ==
    (pc = "evaluating" /\ idx > Len(pms) /\ ~sessBroken /\ ~hist.dirty) =>
        \A p \in PMIds :
            LET pm == pmTable[p]
                ctl == controls_cache[pm.organization_id]
            IN  (/\ pm.trigger_type = "METER"
                 /\ pm.is_active
                 /\ pm.next_due_date = None
                 /\ ~(ctl.exists /\ ctl.pause_pm)
                 /\ Truthy(pm.meter_id) /\ Truthy(pm.meter_interval)
                 /\ MeterTest(pm, meterTable[pm.meter_id].last_reading)) =>
                    \E w \in sessWO : w.pm_id = p

\* C16: after a generation for a TIME, TIME_OR_METER or TIME_AND_METER
\* definition with a positive frequency, the new next_due_date is set and
\* strictly later than the next_due_date before the generation, in FIXED and
\* in FLOATING mode, inside the lead window too.
C16_NextDueStrictlyAdvances ==
    (/\ probe.phase = "generated"
     /\ probe.pm.trigger_type \in {"TIME", "TIME_OR_METER", "TIME_AND_METER"}
     /\ probe.pm.frequency # None /\ probe.pm.frequency > 0) =>
        /\ probe.after.next_due_date # None
        /\ probe.after.next_due_date > probe.pm.next_due_date

-----------------------------------------------------------------------------
(* Generated artifacts and later edits of what they were generated from     *)

\* The task list an edit of job plan 1 leaves, and the attributes update_part
\* gives part 1: <<name, category_id, part_type>>.
EditedTasks == <<"inspect", "replace filter", "lubricate">>
PartEdits == {<<"Bearing 6204", 2, "NON_STOCK">>}
\* <<counted_quantity, needs_recount>> of the entries of a record request.
RecordInputs == {<<3, FALSE>>}

\* A due definition with a job plan, one due count plan, and both
\* schedulers at rest on day 0.
InitSnap ==
    /\ clock = 0
    /\ pmTable =
          [q \in PMIds |->
              WithGates(MkPM(1, "TIME", "FIXED", 1, "DAYS", 0, 0, None, None, None, q = 1),
                        None, None, NoExcluded, 1)]
    /\ meterTable = [m \in MeterIds |-> [exists |-> TRUE, last_reading |-> None]]
    /\ controlTable = [o \in Orgs |-> [exists |-> FALSE, pause_pm |-> FALSE, pause_cycle_counts |-> FALSE]]
    /\ woTable = {}
    /\ woSeq = 1
    /\ pc = "sleeping"
    /\ today = 0
    /\ controls_cache = controlTable
    /\ pms = <<>>
    /\ idx = 1
    /\ generated_wos = <<>>
    /\ sessPM = pmTable
    /\ sessWO = {}
    /\ sessMeter = NoMeterCache
    /\ sessBroken = FALSE
    /\ jobPlanTable = InitialJobPlans
    /\ sessJobPlan = InitialJobPlans
    /\ partTable = PartRows
    /\ hist = InitHist(pmTable)
    /\ probe = NoProbe
    /\ ccHalf = 0
    /\ ccPlanTable =
          <<MkPlan(1, "All", 1, 1, "DAYS", 0, <<>>, {}, "", None, TRUE, FALSE, None, "")>>
    /\ ccCountTable = {}
    /\ ccStockTable = InitialStock
    /\ ccTxnTable = InitialTxns
    /\ ccSeq = 1
    /\ ccPc = "idle"
    /\ ccCycle = NoCycle
    /\ ccSess = NoSession
    /\ ccLast = NoLast
    /\ ApiIdle

\* The job_plan_tasks rows of job plan 1 are rewritten.
EditJobPlanTasks ==
    /\ jobPlanTable[1] # EditedTasks
    /\ jobPlanTable' = [jobPlanTable EXCEPT ![1] = EditedTasks]
    /\ UNCHANGED <<clock, pmTable, meterTable, controlTable, woTable, woSeq, pc,
                   cycleVars, sessVars, hist, probe, partTable, ccVars, apiVars>>

\* update_part on part 1, between two cycles of the count scheduler.
UpdatePart ==
    /\ ccPc = "idle"
    /\ \E e \in PartEdits :
          /\ partTable' = [partTable EXCEPT ![1].name = e[1],
                                            ![1].category_id = e[2],
                                            ![1].part_type = e[3]]
          /\ partTable' # partTable
    /\ UNCHANGED <<clock, pmTable, meterTable, controlTable, woTable, woSeq, pc,
                   cycleVars, sessVars, hist, probe, jobPlanTable, ccVars, apiVars>>

\* A count line that takes the counted quantity as its new expected quantity.
RecordedLine_Rebased(line, counted, recount) ==
    [line EXCEPT !.counted_quantity = counted,
                 !.expected_quantity = counted,
                 !.variance = 0,
                 !.needs_recount = recount]

\* The columns record_cycle_count writes on a count line.
RecordedLine(line, counted, recount) ==
    [line EXCEPT !.counted_quantity = counted,
                 !.variance = counted - line.expected_quantity,
                 !.needs_recount = recount]

\* record_cycle_count, between two cycles of the count scheduler: the
\* entries give the same count for the lines they name.
RecordCycleCount ==
    /\ ccPc = "idle"
    /\ \E cc \in ccCountTable, inp \in RecordInputs :
       \E entries \in SUBSET cc.lines \ {{}} :
          LET lines == {IF l \in entries THEN RecordedLine(l, inp[1], inp[2]) ELSE l :
                           l \in cc.lines}
              done  == \A l \in lines : l.counted_quantity # None
              after == [cc EXCEPT !.lines = lines,
                                  !.status = IF done THEN "COMPLETED" ELSE "IN_PROGRESS"]
          IN  /\ ccCountTable' = (ccCountTable \ {cc}) \cup {after}
              /\ ccStockTable' =
                    [k \in 1..Len(ccStockTable) |->
                        IF \E l \in entries : l.stock_level_id = k
                        THEN [ccStockTable[k] EXCEPT !.current_balance = inp[1]]
                        ELSE ccStockTable[k]]
              /\ ccCountTable' # ccCountTable
    /\ UNCHANGED <<clock, controlTable, pmRest, ccHalf, ccPlanTable, ccTxnTable,
                   ccSeq, ccPc, ccCycle, ccSess, ccLast>>

NextSnap ==
    \/ StartCycle
    \/ ProcessPM
    \/ Commit
    \/ EditJobPlanTasks
    \/ CCStart
    \/ CCProcessPlan
    \/ CCCommit
    \/ CCIssueMaterial
    \/ UpdatePart
    \/ RecordCycleCount

SpecSnap == InitSnap /\ [][NextSnap]_vars

\* What a count line holds of the stock row and the part it was made from.
LineSnapshot(l) ==
    [stock_level_id |-> l.stock_level_id, part_id |-> l.part_id,
     expected_quantity |-> l.expected_quantity, part_number |-> l.part_number,
     part_name |-> l.part_name, part_type |-> l.part_type,
     part_category_id |-> l.part_category_id]

\* C20: no step changes the tasks stored on an existing work order, nor the
\* expected quantity or the part number, name, type and category stored on
\* an existing count line: not an edit of the job plan's tasks, not
\* update_part, not a material booking, not record_cycle_count; work orders
\* and counts pending in a cycle's session are committed as they were made.
C20_SnapshotSemantics ==
    [][/\ \A w \in woTable : \E v \in woTable' : v.id = w.id /\ v.tasks = w.tasks
       /\ \A w \in sessWO :
             \/ \E v \in sessWO' : v.id = w.id /\ v.tasks = w.tasks
             \/ \E v \in woTable' : v.id = w.id /\ v.tasks = w.tasks
       /\ \A cc \in ccCountTable :
             \E dd \in ccCountTable' :
                /\ dd.id = cc.id
                /\ {LineSnapshot(l) : l \in dd.lines} = {LineSnapshot(l) : l \in cc.lines}
       /\ \A cc \in ccSess.counts :
             \E dd \in ccSess'.counts \cup ccCountTable' :
                /\ dd.id = cc.id
                /\ {LineSnapshot(l) : l \in dd.lines} = {LineSnapshot(l) : l \in cc.lines}
      ]_vars

\* C20 witness: after the job plan's tasks and the part were edited and a
\* count was recorded with a variance, a work order still carries the tasks
\* and a count line still carries the part name and the balance of the time
\* they were generated.
C20_Witness ==
    /\ \E w \in woTable : w.tasks # <<>> /\ w.tasks # jobPlanTable[1]
    /\ \E cc \in ccCountTable : \E l \in cc.lines :
          /\ l.part_name # partTable[l.part_id].name
          /\ l.counted_quantity # None
          /\ l.expected_quantity # ccStockTable[l.stock_level_id].current_balance

-----------------------------------------------------------------------------
(* Next-due computations side by side: PMScheduler._calculate_next_due_date, *)
(* calculate_next_due_date of the generate-wo endpoint and _advance_date of  *)
(* the count scheduler, on month ends, leap days and large quantities.       *)

\* The month-length table of calculate_next_due_date: February has 29 days
\* in every year divisible by four.
EndpointMonthRange(y, m) ==
    IF m = 2 THEN (IF y % 4 = 0 THEN 29 ELSE 28)
    ELSE IF m \in {4, 6, 9, 11} THEN 30 ELSE 31

\* The last_date argument generate_work_order passes, then
\* "last_date or date.today()".
EndpointBase(pm, now) ==
    LET last_date == IF pm.schedule_type = "FIXED" THEN pm.next_due_date ELSE now
    IN  IF last_date # None THEN last_date ELSE now

\* calculate_next_due_date raises: timedelta addition past date.max
\* (OverflowError) or a date() call with an invalid year or day (ValueError).
EndpointNextDueRaises(pm, now) ==
    /\ pm.frequency # None /\ pm.frequency_unit # "NONE"
    /\ LET base == EndpointBase(pm, now)
           b == DateOf(base)
           month == b.m + pm.frequency
           year == b.y + ((month - 1) \div 12)
           mon == ((month - 1) % 12) + 1
       IN  \/ pm.frequency_unit = "DAYS" /\ AddDays(base, pm.frequency) > MaxOrd
           \/ pm.frequency_unit = "WEEKS" /\ AddWeeks(base, pm.frequency) > MaxOrd
           \/ pm.frequency_unit = "MONTHS"
              /\ ~ValidDate(year, mon, Min(b.d, EndpointMonthRange(year, mon)))
           \/ pm.frequency_unit = "YEARS"
              /\ ~ValidDate(b.y + pm.frequency, b.m, b.d)

\* calculate_next_due_date (value when it does not raise)
EndpointNextDueDate(pm, now) ==
    IF pm.frequency = None \/ pm.frequency_unit = "NONE" THEN None
    ELSE LET base == EndpointBase(pm, now)
             b == DateOf(base)
             month == b.m + pm.frequency
             year == b.y + ((month - 1) \div 12)
             mon == ((month - 1) % 12) + 1
         IN  IF pm.frequency_unit = "DAYS" THEN AddDays(base, pm.frequency)
             ELSE IF pm.frequency_unit = "WEEKS" THEN AddWeeks(base, pm.frequency)
             ELSE IF pm.frequency_unit = "MONTHS"
                  THEN OrdOf(year, mon, Min(b.d, EndpointMonthRange(year, mon)))
             ELSE IF pm.frequency_unit = "YEARS"
                  THEN OrdOf(b.y + pm.frequency, b.m, b.d)
             ELSE None

\* _advance_date raises: the result lies past date.max.
AdvanceDateRaises(current, value, unit) ==
    LET b == DateOf(current)
    IN  \/ unit = "DAYS" /\ AddDays(current, value) > MaxOrd
        \/ unit = "WEEKS" /\ AddWeeks(current, value) > MaxOrd
        \/ unit = "MONTHS" /\ b.y + ((b.m + value - 1) \div 12) > 9999

\* Base dates: month ends, a leap day, December, and January of a century
\* year that is not a leap year.
CalDates == {OrdOf(2024, 1, 31), OrdOf(2023, 1, 31), OrdOf(2024, 2, 29),
             OrdOf(2024, 12, 15), OrdOf(2100, 1, 31)}
CalFrequencies == {<<1, "DAYS">>, <<2, "WEEKS">>, <<1, "MONTHS">>, <<13, "MONTHS">>,
                   <<1, "YEARS">>, <<4, "YEARS">>, <<9000, "YEARS">>, <<None, "NONE">>}
\* The day the computation runs on when the base is the stored due date.
CalToday == OrdOf(2024, 3, 15)

\* A definition whose next-due computation starts from base: FIXED with
\* next_due_date = base, FIXED without a next_due_date on the day base, or
\* FLOATING on the day base.
CalInputs ==
    {[NoCalc EXCEPT !.pm = MkPM(1, "TIME", c[1], fu[1], fu[2], 0, c[2],
                                None, None, None, TRUE),
                    !.today = c[3], !.phase = "input"] :
        fu \in CalFrequencies,
        c \in UNION {{<<"FIXED", d, CalToday>>, <<"FIXED", None, d>>,
                      <<"FLOATING", 0, d>>} : d \in CalDates}}

InitCal ==
    /\ clock = 0
    /\ PMStopped
    /\ probe = NoProbe
    /\ CCIdle
    /\ cal \in CalInputs
    /\ woHistTable = <<>>
    /\ woDeleted = {}
    /\ api = NoCall
    /\ req = NoRequest

\* pm.next_due_date = self._calculate_next_due_date(pm)
CalScheduler ==
    /\ cal.phase = "input"
    /\ ~cal.scheduler.done
    /\ cal' = [cal EXCEPT !.scheduler =
                 IF CalcNextDueRaises(cal.pm, cal.today)
                 THEN [done |-> TRUE, raised |-> TRUE, value |-> None]
                 ELSE [done |-> TRUE, raised |-> FALSE,
                       value |-> CalculateNextDueDate(cal.pm, cal.today)]]
    /\ UNCHANGED <<pmVars, probe, ccVars, woHistTable, woDeleted, api, req>>

\* "Calculate next due date" of generate_work_order.
CalEndpoint ==
    /\ cal.phase = "input"
    /\ ~cal.endpoint.done
    /\ cal' = [cal EXCEPT !.endpoint =
                 IF EndpointNextDueRaises(cal.pm, cal.today)
                 THEN [done |-> TRUE, raised |-> TRUE, value |-> None]
                 ELSE [done |-> TRUE, raised |-> FALSE,
                       value |-> EndpointNextDueDate(cal.pm, cal.today)]]
    /\ UNCHANGED <<pmVars, probe, ccVars, woHistTable, woDeleted, api, req>>

\* _advance_date(base, frequency_value, frequency_unit) from the same base.
CalAdvanceDate ==
    /\ cal.phase = "input"
    /\ ~cal.plan.done
    /\ cal.pm.frequency # None
    /\ LET base == NextDueBase(cal.pm, cal.today)
       IN  cal' = [cal EXCEPT !.plan =
                 IF AdvanceDateRaises(base, cal.pm.frequency, cal.pm.frequency_unit)
                 THEN [done |-> TRUE, raised |-> TRUE, value |-> None]
                 ELSE [done |-> TRUE, raised |-> FALSE,
                       value |-> AdvanceDate(base, cal.pm.frequency,
                                             cal.pm.frequency_unit)]]
    /\ UNCHANGED <<pmVars, probe, ccVars, woHistTable, woDeleted, api, req>>

NextCal ==
    \/ CalScheduler
    \/ CalEndpoint
    \/ CalAdvanceDate

SpecCal == InitCal /\ [][NextCal]_vars

\* The date the computation under test starts from.
CalBase == NextDueBase(cal.pm, cal.today)

\* C21: advancing by a positive number of MONTHS gives the year and month
\* of the raw month index with the day clamped to the length of the target
\* month (Gregorian leap rule), advancing by YEARS keeps month and day
\* except that Feb 29 becomes Feb 28 in a non-leap target year, and the
\* computation never raises.
C21_CalendarArithmetic ==
    LET b == DateOf(CalBase)
        q == cal.pm.frequency
        raw == b.m - 1 + q
        y == b.y + (raw \div 12)
        m == (raw % 12) + 1
        months == OrdOf(y, m, Min(b.d, MonthRange(y, m)))
        years == OrdOf(b.y + q, b.m,
                       IF b.m = 2 /\ b.d = 29 /\ ~IsLeap(b.y + q) THEN 28 ELSE b.d)
    IN  \A r \in {cal.scheduler, cal.plan} :
           (r.done /\ q # None /\ q > 0) =>
              /\ ~r.raised
              /\ cal.pm.frequency_unit = "MONTHS" => r.value = months
              /\ cal.pm.frequency_unit = "YEARS" => r.value = years

\* C29: from the same definition on the same day, calculate_next_due_date
\* as generate_work_order calls it and PMScheduler._calculate_next_due_date
\* give the same next due date, and one raises only when the other does.
C29_EndpointMatchesScheduler ==
    (cal.scheduler.done /\ cal.endpoint.done) =>
       /\ cal.endpoint.raised = cal.scheduler.raised
       /\ cal.endpoint.value = cal.scheduler.value

-----------------------------------------------------------------------------
(* Malformed definitions, loop control                                      *)

\* C22: no work order is ever generated for a time-relevant definition
\* whose frequency or frequency unit is missing.
C22_MisconfiguredNeverFires ==
    \A w \in woTable \cup sessWO :
       w.pm_id # None =>
          LET pm == pmTable[w.pm_id]
          IN  pm.trigger_type \in {"TIME", "TIME_OR_METER", "TIME_AND_METER"} =>
                 pm.frequency # None /\ pm.frequency_unit # "NONE"

\* Stores the loops are followed on: two tenants whose first work orders
\* collide on wo_number (every cycle fails), or one tenant with a definition
\* whose generation fails inside _generate_work_order (the cycle commits).
LoopStores ==
    {<<MkPM(1, "TIME", "FIXED", 1, "DAYS", 0, 0, None, None, None, TRUE),
       MkPM(2, "TIME", "FIXED", 1, "DAYS", 0, 0, None, None, None, TRUE)>>,
     <<MkPM(1, "TIME", "FIXED", 2, "DAYS", 0, 0, None, None, None, TRUE),
       MkPM(1, "TIME", "FIXED", 9000, "YEARS", 0, 0, None, None, None, TRUE)>>}

\* Both tasks created, each about to run its first cycle; the cycles of one
\* day are followed.
InitLoop ==
    /\ clock = 0
    /\ pmTable \in LoopStores
    /\ meterTable = [m \in MeterIds |-> [exists |-> TRUE, last_reading |-> None]]
    /\ controlTable = [o \in Orgs |-> [exists |-> FALSE, pause_pm |-> FALSE,
                                       pause_cycle_counts |-> FALSE]]
    /\ woTable = {}
    /\ woSeq = 1
    /\ pc = "sleeping"
    /\ today = 0
    /\ controls_cache = controlTable
    /\ pms = <<>>
    /\ idx = 1
    /\ generated_wos = <<>>
    /\ sessPM = pmTable
    /\ sessWO = {}
    /\ sessMeter = NoMeterCache
    /\ sessBroken = FALSE
    /\ jobPlanTable = InitialJobPlans
    /\ sessJobPlan = InitialJobPlans
    /\ partTable = PartRows
    /\ hist = InitHist(pmTable)
    /\ probe = NoProbe
    /\ CCIdle
    /\ ApiIdle

NextLoop ==
    \/ StartCycle
    \/ ProcessPM
    \/ Commit
    \/ AbortCycle
    \/ Cancel
    \/ CCStart
    \/ CCProcessPlan
    \/ CCCommit

\* asyncio resumes a task whose await has completed: the sleep of an hour
\* ends, and every statement of a running cycle is followed by the next.
\* Shutdown is up to the environment.
LoopFairness ==
    /\ WF_vars(StartCycle)
    /\ WF_vars(ProcessPM)
    /\ WF_vars(Commit)
    /\ WF_vars(AbortCycle)
    /\ WF_vars(CCStart)
    /\ WF_vars(CCProcessPlan)
    /\ WF_vars(CCCommit)

SpecLoop == InitLoop /\ [][NextLoop]_vars /\ LoopFairness

\* C23: a cycle that is running comes to its end, by its commit or by an
\* error; after every cycle, failed or committed, a further cycle starts
\* unless the task is cancelled; and a cycle leaves the loop only by
\* cancellation.
C23_LoopSurvivesErrors ==
    /\ (pc = "evaluating") ~> (pc \in {"sleeping", "stopped"})
    /\ (pc = "sleeping" /\ hist.end = "raise" /\ woSeq <= MaxWoSeq)
          ~> (pc \in {"evaluating", "stopped"})
    /\ (pc = "sleeping" /\ hist.end = "commit" /\ woSeq <= MaxWoSeq)
          ~> (pc \in {"evaluating", "stopped"})
    /\ (ccPc = "looping") ~> (ccPc = "idle")
    /\ (ccPc = "idle") ~> (ccPc = "looping")
    /\ [][(pc = "evaluating" /\ pc' = "stopped") => hist'.end = "cancel"]_vars

\* A cycle has started after a cycle that ended in an error.
C23_Witness ==
    /\ pc = "evaluating"
    /\ hist.prev = {}
    /\ hist.seq0 > 1
    /\ woTable = {}
    /\ pmTable[2].organization_id = 2

\* C24: the task stops only from its sleep between two cycles; a cycle that
\* is running is never cut short by the shutdown.
C24_CancelOnlyWhileSleeping ==
    [][(pc # "stopped" /\ pc' = "stopped") => pc = "sleeping"]_vars

-----------------------------------------------------------------------------
(* What a cycle writes                                                      *)

\* Definitions of tenant 1 for the frame of a cycle: time, meter and
\* combined triggers, one whose next-due computation raises.
FrameProfiles ==
    {MkPM(1, "TIME", "FIXED", 1, "DAYS", 0, 0, None, None, None, TRUE),
     MkPM(1, "METER", "FIXED", 1, "DAYS", 0, 0, 1, 2, 2, TRUE),
     MkPM(1, "TIME_OR_METER", "FLOATING", 1, "MONTHS", 1, 3, 1, 2, 2, TRUE),
     MkPM(1, "TIME", "FIXED", 9000, "YEARS", 0, 0, None, None, None, TRUE),
     MkPM(1, "TIME", "FIXED", 1, "DAYS", 0, 0, None, None, None, FALSE)}

\* The stores of Init that hold one of these definitions, with tenant 1
\* running or paused.
InitFrame ==
    /\ Init
    /\ pmTable[1] \in FrameProfiles
    /\ ~controlTable[2].exists
    /\ controlTable[1].exists
    /\ ~controlTable[1].pause_cycle_counts

SpecFrame == InitFrame /\ [][Next]_vars

\* C28: whatever step is taken while the scheduler runs, every definition
\* keeps all its columns other than last_wo_date, last_wo_id, next_due_date,
\* last_meter_reading and next_meter_reading; a definition whose row changes
\* has a new work order stored with it; no definition disappears; and the
\* scheduler-control rows stay as they are.
C28_GeneratorFrame ==
    [][/\ controlTable' = controlTable
       /\ DOMAIN pmTable' = DOMAIN pmTable
       /\ \A q \in PMIds :
             /\ [pmTable'[q] EXCEPT
                    !.last_wo_date = pmTable[q].last_wo_date,
                    !.last_wo_id = pmTable[q].last_wo_id,
                    !.next_due_date = pmTable[q].next_due_date,
                    !.last_meter_reading = pmTable[q].last_meter_reading,
                    !.next_meter_reading = pmTable[q].next_meter_reading] = pmTable[q]
             /\ pmTable'[q] # pmTable[q] =>
                   \E w \in woTable' \ woTable : w.pm_id = q]_vars

\* A cycle has committed a generation for a metered definition, re-arming
\* its meter columns, and has left the other definition as it was.
C28_Witness ==
    /\ pc = "sleeping"
    /\ hist.end = "commit"
    /\ \E q \in PMIds :
          /\ pmTable[q].last_wo_id # None
          /\ pmTable[q].last_meter_reading # None
          /\ pmTable[q].next_due_date # hist.pre[q].next_due_date
          /\ \E o \in PMIds \ {q} : pmTable[o] = hist.pre[o]

-----------------------------------------------------------------------------
(* Work-order status workflow: update_work_order_status of the work-order   *)
(* endpoints and WorkOrderService of services/work_order_service.py.        *)

WorkOrderStatuses ==
    {"DRAFT", "WAITING_APPROVAL", "APPROVED", "SCHEDULED", "IN_PROGRESS",
     "ON_HOLD", "COMPLETED", "CLOSED", "CANCELLED"}

\* Variant of StatusTransitions that lets a closed work order be reopened.
StatusTransitions_ReopenClosed(from) ==
    IF from = "DRAFT" THEN {"WAITING_APPROVAL", "APPROVED", "CANCELLED"}
    ELSE IF from = "WAITING_APPROVAL" THEN {"APPROVED", "DRAFT", "CANCELLED"}
    ELSE IF from = "APPROVED" THEN {"SCHEDULED", "IN_PROGRESS", "CANCELLED"}
    ELSE IF from = "SCHEDULED" THEN {"IN_PROGRESS", "APPROVED", "CANCELLED"}
    ELSE IF from = "IN_PROGRESS" THEN {"ON_HOLD", "COMPLETED"}
    ELSE IF from = "ON_HOLD" THEN {"IN_PROGRESS", "CANCELLED"}
    ELSE IF from = "COMPLETED" THEN {"CLOSED", "IN_PROGRESS"}
    ELSE IF from = "CLOSED" THEN {"IN_PROGRESS"}
    ELSE {}

\* STATUS_TRANSITIONS.get(status, [])
StatusTransitions(from) ==
    IF from = "DRAFT" THEN {"WAITING_APPROVAL", "APPROVED", "CANCELLED"}
    ELSE IF from = "WAITING_APPROVAL" THEN {"APPROVED", "DRAFT", "CANCELLED"}
    ELSE IF from = "APPROVED" THEN {"SCHEDULED", "IN_PROGRESS", "CANCELLED"}
    ELSE IF from = "SCHEDULED" THEN {"IN_PROGRESS", "APPROVED", "CANCELLED"}
    ELSE IF from = "IN_PROGRESS" THEN {"ON_HOLD", "COMPLETED"}
    ELSE IF from = "ON_HOLD" THEN {"IN_PROGRESS", "CANCELLED"}
    ELSE IF from = "COMPLETED" THEN {"CLOSED", "IN_PROGRESS"}
    ELSE {}

\* WorkOrderService.validate_transition
ValidateTransition(from, to) ==
    to \in (CASE from = "DRAFT" -> {"WAITING_APPROVAL", "APPROVED", "CANCELLED"}
              [] from = "WAITING_APPROVAL" -> {"APPROVED", "DRAFT", "CANCELLED"}
              [] from = "APPROVED" -> {"SCHEDULED", "IN_PROGRESS", "CANCELLED"}
              [] from = "SCHEDULED" -> {"IN_PROGRESS", "APPROVED", "CANCELLED"}
              [] from = "IN_PROGRESS" -> {"ON_HOLD", "COMPLETED"}
              [] from = "ON_HOLD" -> {"IN_PROGRESS", "CANCELLED"}
              [] from = "COMPLETED" -> {"CLOSED", "IN_PROGRESS"}
              [] from = "CLOSED" -> {}
              [] from = "CANCELLED" -> {}
              [] OTHER -> {})

\* Most requests followed on one work order.
MaxCalls == 2

\* from_status of the history row that create_work_order writes (NULL).
NoStatus == ""

\* A WorkOrderStatusHistory row.
HistoryRow(wo, from, to) == [work_order_id |-> wo, from_status |-> from, to_status |-> to]

\* The statuses a work order created by create_work_order has gone through
\* on its way to status s, by accepted requests to the status endpoint.
PathTo(s) ==
    CASE s = "DRAFT" -> <<"DRAFT">>
      [] s = "WAITING_APPROVAL" -> <<"DRAFT", "WAITING_APPROVAL">>
      [] s = "APPROVED" -> <<"DRAFT", "APPROVED">>
      [] s = "SCHEDULED" -> <<"DRAFT", "APPROVED", "SCHEDULED">>
      [] s = "IN_PROGRESS" -> <<"DRAFT", "APPROVED", "IN_PROGRESS">>
      [] s = "ON_HOLD" -> <<"DRAFT", "APPROVED", "IN_PROGRESS", "ON_HOLD">>
      [] s = "COMPLETED" -> <<"DRAFT", "APPROVED", "IN_PROGRESS", "COMPLETED">>
      [] s = "CLOSED" -> <<"DRAFT", "APPROVED", "IN_PROGRESS", "COMPLETED", "CLOSED">>
      [] s = "CANCELLED" -> <<"DRAFT", "CANCELLED">>

\* Work order 1 of tenant 1 as those requests, all served at time 0, left it.
StoredWorkOrder(s) ==
    LET path == PathTo(s)
        seen(t) == \E i \in 1..Len(path) : path[i] = t
    IN  [id |-> 1, organization_id |-> 1, wo_number |-> 1, pm_id |-> None,
         due_date |-> None, status |-> s, work_type |-> "CORRECTIVE",
         actual_start |-> IF seen("IN_PROGRESS") THEN 0 ELSE None,
         actual_end |-> IF seen("COMPLETED") THEN 0 ELSE None,
         tasks |-> <<>>]

\* The status history those requests left.
StoredHistory(s) ==
    LET path == PathTo(s)
    IN  [i \in 1..Len(path) |->
            HistoryRow(1, IF i = 1 THEN NoStatus ELSE path[i - 1], path[i])]

\* <<wo_id, current_user.organization_id>> of the requests: the work order,
\* an id that does not exist, and the work order asked for by another tenant.
FlowRequests == {<<1, 1>>, <<2, 1>>, <<1, 2>>}

\* One work order in any status, on the day after it was last touched.
InitFlow ==
    /\ clock = 1
    /\ pmTable = [q \in PMIds |-> NoProbe.pm]
    /\ meterTable = [m \in MeterIds |-> [exists |-> TRUE, last_reading |-> None]]
    /\ controlTable = [o \in Orgs |-> [exists |-> FALSE, pause_pm |-> FALSE,
                                       pause_cycle_counts |-> FALSE]]
    /\ \E s \in WorkOrderStatuses :
          /\ woTable = {StoredWorkOrder(s)}
          /\ woHistTable = StoredHistory(s)
    /\ woSeq = 2
    /\ pc = "stopped"
    /\ today = 0
    /\ controls_cache = controlTable
    /\ pms = <<>>
    /\ idx = 1
    /\ generated_wos = <<>>
    /\ sessPM = pmTable
    /\ sessWO = {}
    /\ sessMeter = NoMeterCache
    /\ sessBroken = FALSE
    /\ jobPlanTable = InitialJobPlans
    /\ sessJobPlan = InitialJobPlans
    /\ partTable = PartRows
    /\ hist = InitHist(pmTable)
    /\ probe = NoProbe
    /\ CCIdle
    /\ cal = NoCalc
    /\ woDeleted = {}
    /\ api = NoCall
    /\ req = NoRequest

\* The side effects both status changes apply to the row: actual_start on
\* the first move to IN_PROGRESS, actual_end on every move to COMPLETED.
WithStatus(w, to, now) ==
    [w EXCEPT !.status = to,
              !.actual_start = IF to = "IN_PROGRESS" /\ w.actual_start = None
                               THEN now ELSE @,
              !.actual_end = IF to = "COMPLETED" THEN now ELSE @]

\* update_work_order_status
UpdateWorkOrderStatus ==
    /\ api.n < MaxCalls
    /\ \E r \in FlowRequests, to \in WorkOrderStatuses :
          LET found == {w \in woTable : w.id = r[1] /\ w.organization_id = r[2]}
              call == [NoCall EXCEPT !.n = api.n + 1, !.op = "update_work_order_status",
                                     !.wo = r[1], !.org = r[2], !.to = to]
          IN  IF found = {}
              THEN \* 404
                   /\ api' = call
                   /\ UNCHANGED <<woTable, woHistTable>>
              ELSE LET w == CHOOSE x \in found : TRUE
                   IN  IF to \notin StatusTransitions(w.status)
                       THEN \* 400
                            /\ api' = [call EXCEPT !.from = w.status]
                            /\ UNCHANGED <<woTable, woHistTable>>
                       ELSE /\ woTable' = (woTable \ {w}) \cup {WithStatus(w, to, UtcNow)}
                            /\ woHistTable' = Append(woHistTable,
                                                     HistoryRow(w.id, w.status, to))
                            /\ api' = [call EXCEPT !.from = w.status, !.accepted = TRUE]
    /\ UNCHANGED <<clock, pmTable, meterTable, controlTable, woSeq, jobPlanTable,
                   partTable, pc, cycleVars, sessVars, hist, probe, ccVars, cal,
                   woDeleted, req>>

\* WorkOrderService.change_status(work_order, new_status, user_id)
ChangeStatus ==
    /\ api.n < MaxCalls
    /\ \E w \in woTable, to \in WorkOrderStatuses :
          /\ woTable' = (woTable \ {w}) \cup {WithStatus(w, to, UtcNow)}
          /\ woHistTable' = Append(woHistTable, HistoryRow(w.id, w.status, to))
          /\ api' = [NoCall EXCEPT !.n = api.n + 1, !.op = "change_status",
                                   !.wo = w.id, !.org = w.organization_id,
                                   !.from = w.status, !.to = to, !.accepted = TRUE]
    /\ UNCHANGED <<clock, pmTable, meterTable, controlTable, woSeq, jobPlanTable,
                   partTable, pc, cycleVars, sessVars, hist, probe, ccVars, cal,
                   woDeleted, req>>

NextFlow ==
    \/ UpdateWorkOrderStatus
    \/ ChangeStatus

SpecFlow == InitFlow /\ [][NextFlow]_vars

\* C26: a request to the status endpoint is accepted only out of a status
\* other than CLOSED and CANCELLED, moves to COMPLETED only from IN_PROGRESS,
\* and is accepted exactly when validate_transition allows the pair; an
\* accepted request stores the new status with one history row, a rejected
\* one leaves the work orders and the status history as they were; and
\* validate_transition allows the pairs of STATUS_TRANSITIONS and no others.
C26_StatusWorkflow ==
    [][/\ \A f \in WorkOrderStatuses, t \in WorkOrderStatuses :
             ValidateTransition(f, t) <=> (t \in StatusTransitions(f))
       /\ (api'.n # api.n /\ api'.op = "update_work_order_status") =>
             LET rows == {w \in woTable : w.id = api'.wo /\ w.organization_id = api'.org}
             IN  /\ api'.accepted =>
                       \E w \in rows :
                          /\ w.status \notin {"CLOSED", "CANCELLED"}
                          /\ api'.to = "COMPLETED" => w.status = "IN_PROGRESS"
                          /\ ValidateTransition(w.status, api'.to)
                          /\ \E v \in woTable' : v.id = w.id /\ v.status = api'.to
                          /\ woHistTable' =
                                Append(woHistTable, HistoryRow(w.id, w.status, api'.to))
                 /\ ~api'.accepted =>
                       /\ woTable' = woTable
                       /\ woHistTable' = woHistTable
                       /\ \A w \in rows : ~ValidateTransition(w.status, api'.to)
      ]_vars

\* The endpoint has closed a completed work order and then refused to
\* reopen it.
C26_Witness ==
    /\ api.n = 2
    /\ api.op = "update_work_order_status"
    /\ ~api.accepted
    /\ api.from = "CLOSED"
    /\ api.to = "IN_PROGRESS"
    /\ Len(woHistTable) = Len(StoredHistory("CLOSED"))
    /\ \E w \in woTable : w.id = api.wo /\ w.status = "CLOSED" /\ w.actual_end = 0

\* C27: change_status does not apply a pair that validate_transition
\* rejects: the work orders and the status history stay as they were.
C27_ChangeStatusValidates ==
    [][(api'.n # api.n /\ api'.op = "change_status") =>
          \A w \in woTable :
             (w.id = api'.wo /\ ~ValidateTransition(w.status, api'.to)) =>
                (woTable' = woTable /\ woHistTable' = woHistTable)]_vars

-----------------------------------------------------------------------------
(* Requests that create and delete work orders                              *)
(* (create_work_order, generate_work_order, delete_work_order)              *)

\* generate_wo_number, and the count in generate_work_order: the number of
\* work orders of the tenant that the request's transaction sees, plus one.
GenerateWoNumber(org) ==
    Cardinality({w \in woTable : w.organization_id = org}) + 1

\* create_work_order up to the number: the request has read the count.
CreateBegin ==
    /\ req.phase = "none"
    /\ woSeq <= MaxWoSeq
    /\ \E org \in Orgs :
          req' = [phase |-> "numbered", op |-> "create_work_order", org |-> org,
                  pm_id |-> None, number |-> GenerateWoNumber(org),
                  pm |-> NoProbe.pm, tasks |-> <<>>]
    /\ UNCHANGED <<pmVars, probe, ccVars, cal, woHistTable, woDeleted, api>>

\* generate_work_order up to the number: the definition is selected by id
\* and tenant with its job plan's tasks (404 when there is none), then the
\* count is read.
GenerateBegin ==
    /\ req.phase = "none"
    /\ woSeq <= MaxWoSeq
    /\ \E p \in PMIds, org \in Orgs :
          /\ pmTable[p].organization_id = org
          /\ req' = [phase |-> "numbered", op |-> "generate_work_order", org |-> org,
                     pm_id |-> p, number |-> GenerateWoNumber(org),
                     pm |-> pmTable[p],
                     tasks |-> IF pmTable[p].job_plan_id \in DOMAIN jobPlanTable
                               THEN jobPlanTable[pmTable[p].job_plan_id] ELSE <<>>]
    /\ UNCHANGED <<pmVars, probe, ccVars, cal, woHistTable, woDeleted, api>>

\* The WorkOrder row of the request in flight.
RequestedWorkOrder ==
    IF req.op = "generate_work_order"
    THEN [id |-> woSeq, organization_id |-> req.org, wo_number |-> req.number,
          pm_id |-> req.pm_id, due_date |-> req.pm.next_due_date,
          status |-> "APPROVED", work_type |-> "PREVENTIVE",
          actual_start |-> None, actual_end |-> None, tasks |-> req.tasks]
    ELSE [id |-> woSeq, organization_id |-> req.org, wo_number |-> req.number,
          pm_id |-> None, due_date |-> None,
          status |-> "DRAFT", work_type |-> "CORRECTIVE",
          actual_start |-> None, actual_end |-> None, tasks |-> <<>>]

\* The definition as generate_work_order leaves it in its session: tracking,
\* then the next due date.
RequestedPM ==
    [req.pm EXCEPT !.last_wo_date = clock, !.last_wo_id = woSeq,
                   !.next_due_date = EndpointNextDueDate(req.pm, clock)]

\* The call as the client sees it.
Served(ok) ==
    [n |-> api.n + 1, op |-> req.op, wo |-> woSeq, org |-> req.org,
     from |-> NoStatus, to |-> RequestedWorkOrder.status, accepted |-> ok,
     number |-> req.number]

\* The rest of either request: db.add and flush of the work order, what
\* follows it, and the commit. The INSERT waits while another transaction
\* holds the same wo_number uncommitted; it is rejected (IntegrityError, the
\* request ends with status 500 and nothing written) when the number is
\* stored. generate_work_order ends the same way when
\* calculate_next_due_date raises.
FinishRequest ==
    /\ req.phase = "numbered"
    /\ ~\E w \in sessWO : w.wo_number = req.number
    /\ woSeq' = woSeq + 1
    /\ req' = NoRequest
    /\ IF \/ \E w \in woTable : w.wo_number = req.number
          \/ req.op = "generate_work_order" /\ EndpointNextDueRaises(req.pm, clock)
       THEN /\ api' = Served(FALSE)
            /\ UNCHANGED <<woTable, pmTable, woHistTable>>
       ELSE /\ api' = Served(TRUE)
            /\ woTable' = woTable \cup {RequestedWorkOrder}
            /\ IF req.op = "generate_work_order"
               THEN /\ pmTable' = [pmTable EXCEPT ![req.pm_id] =
                                      FlushedPM(@, req.pm, RequestedPM)]
                    /\ UNCHANGED woHistTable
               ELSE /\ woHistTable' = Append(woHistTable,
                                             HistoryRow(woSeq, NoStatus, "DRAFT"))
                    /\ UNCHANGED pmTable
    /\ UNCHANGED <<clock, meterTable, controlTable, jobPlanTable, partTable, pc,
                   cycleVars, sessVars, hist, probe, ccVars, cal, woDeleted>>

\* delete_work_order by an administrator of the work order's tenant: the row
\* and, by ON DELETE CASCADE, its status history. A work order that a
\* definition's last_wo_id refers to cannot be deleted (foreign key): that
\* request fails and changes nothing.
DeleteWorkOrder ==
    /\ req.phase = "none"
    /\ \E w \in woTable :
          /\ \A q \in PMIds : pmTable[q].last_wo_id # w.id
          /\ woTable' = woTable \ {w}
          /\ woHistTable' = SelectSeq(woHistTable, LAMBDA h : h.work_order_id # w.id)
          /\ woDeleted' = woDeleted \cup {<<w.organization_id, w.wo_number>>}
          /\ api' = [NoCall EXCEPT !.n = api.n, !.op = "delete_work_order",
                                   !.wo = w.id, !.org = w.organization_id,
                                   !.accepted = TRUE, !.number = w.wo_number]
    /\ UNCHANGED <<clock, pmTable, meterTable, controlTable, woSeq, jobPlanTable,
                   partTable, pc, cycleVars, sessVars, hist, probe, ccVars, cal, req>>

-----------------------------------------------------------------------------
(* Work-order numbers over sequential creations and deletions               *)

\* Two tenants with a due definition each, or one tenant with two.
NumStores ==
    {<<MkPM(1, "TIME", "FIXED", 1, "DAYS", 0, 0, None, None, None, TRUE),
       MkPM(2, "TIME", "FIXED", 1, "DAYS", 0, 0, None, None, None, TRUE)>>,
     <<MkPM(1, "TIME", "FIXED", 1, "DAYS", 0, 0, None, None, None, TRUE),
       MkPM(1, "TIME", "FLOATING", 1, "WEEKS", 0, 5, None, None, None, TRUE)>>}

\* The scheduler asleep on a store without work orders.
InitStore(stores) ==
    /\ clock = 0
    /\ pmTable \in stores
    /\ meterTable = [m \in MeterIds |-> [exists |-> TRUE, last_reading |-> None]]
    /\ controlTable = [o \in Orgs |-> [exists |-> FALSE, pause_pm |-> FALSE,
                                       pause_cycle_counts |-> FALSE]]
    /\ woTable = {}
    /\ woSeq = 1
    /\ pc = "sleeping"
    /\ today = 0
    /\ controls_cache = controlTable
    /\ pms = <<>>
    /\ idx = 1
    /\ generated_wos = <<>>
    /\ sessPM = pmTable
    /\ sessWO = {}
    /\ sessMeter = NoMeterCache
    /\ sessBroken = FALSE
    /\ jobPlanTable = InitialJobPlans
    /\ sessJobPlan = InitialJobPlans
    /\ partTable = PartRows
    /\ hist = InitHist(pmTable)
    /\ probe = NoProbe
    /\ CCIdle
    /\ ApiIdle

InitNum == InitStore(NumStores)

\* One transaction at a time: a request is served from beginning to end
\* while the scheduler sleeps, and a cycle runs while no request is served.
SeqStartCycle == req.phase = "none" /\ StartCycle
SeqCreateBegin == pc = "sleeping" /\ CreateBegin
SeqGenerateBegin == pc = "sleeping" /\ GenerateBegin
SeqDeleteWorkOrder == pc = "sleeping" /\ DeleteWorkOrder

NextNum ==
    \/ SeqStartCycle
    \/ ProcessPM
    \/ Commit
    \/ AbortCycle
    \/ SeqCreateBegin
    \/ SeqGenerateBegin
    \/ FinishRequest
    \/ SeqDeleteWorkOrder

SpecNum == InitNum /\ [][NextNum]_vars

\* The numbers a tenant has been given that are stored or were deleted.
PastNumbers(org) ==
    {w.wo_number : w \in {v \in woTable \cup sessWO : v.organization_id = org}}
       \cup {d[2] : d \in {e \in woDeleted : e[1] = org}}

\* C25: every number allocated, by a request or by the scheduler, is greater
\* than every number the tenant's stored and deleted work orders carry and
\* equals no stored wo_number of any tenant, so that no insert is rejected.
C25_NumberingMonotonic ==
    [][/\ \A w \in woTable' \cup sessWO' :
             (~\E v \in woTable \cup sessWO : v.id = w.id) =>
                \A n \in PastNumbers(w.organization_id) : w.wo_number > n
       /\ (api'.n # api.n) =>
             /\ \A n \in PastNumbers(api'.org) : api'.number > n
             /\ \A v \in woTable : v.wo_number # api'.number
             /\ api'.accepted
       /\ ~(sessBroken' /\ ~sessBroken)]_vars

-----------------------------------------------------------------------------
(* A scheduler cycle and a request in flight at the same time               *)

\* One tenant with two definitions on a daily fixed schedule, both due.
RaceStores ==
    {<<MkPM(1, "TIME", "FIXED", 1, "DAYS", 0, 0, None, None, None, TRUE),
       MkPM(1, "TIME", "FIXED", 1, "DAYS", 0, 0, None, None, None, TRUE)>>}

InitRace == InitStore(RaceStores)

\* A work order created by hand in the tenant of the definitions.
SameTenantCreateBegin == CreateBegin /\ req'.org = pmTable[1].organization_id

\* The scheduler task and one request handler run on the same event loop,
\* each in its own session and transaction; either proceeds at any await.
NextRace ==
    \/ StartCycle
    \/ ProcessPM
    \/ Commit
    \/ SameTenantCreateBegin
    \/ GenerateBegin
    \/ FinishRequest

SpecRace == InitRace /\ [][NextRace]_vars

\* The work orders stored for definition q.
WorkOrdersOf(q) == {w \in woTable : w.pm_id = q}

\* C30: a cycle and a request that overlap never hold the same wo_number,
\* every request's work order is stored, and once both are done each
\* definition's next_due_date has moved one day per work order stored for
\* it, no two of which are for the same due date.
C30_ConcurrentGeneration ==
    /\ \A w \in sessWO : ~(req.phase = "numbered" /\ req.number = w.wo_number)
    /\ api.op \in {"create_work_order", "generate_work_order"} => api.accepted
    /\ (pc = "sleeping" /\ req.phase = "none") =>
          \A q \in PMIds :
             /\ pmTable[q].next_due_date = Cardinality(WorkOrdersOf(q))
             /\ \A v, w \in WorkOrdersOf(q) : v.id # w.id => v.due_date # w.due_date

====
